---- MODULE Spec2Model ----
(***************************************************************************)
(* Account lifecycle, token issuing, external-identity linking and         *)
(* activity ingestion of the cycling-club membership application           *)
(* (src/app/models.py, src/app/blueprints/auth.py, admin.py, strava.py).   *)
(*                                                                         *)
(* The durable store is the set of tables (users, email verification       *)
(* tokens, OAuth states, Strava tokens, Strava activities, activity feed). *)
(* A request handler is one action; the handlers whose interleaving        *)
(* matters are also modelled step by step (read, check, mark, commit) in   *)
(* the concurrent specifications further down.                             *)
(***************************************************************************)
EXTENDS Integers, Sequences, FiniteSets, TLC

VARIABLES
  users,        \* table users: sequence of rows, the id is the index
  vtokens,      \* table email_verification_tokens, the token string is the index
  ostates,      \* table strava_oauth_states, the state string is the index
  links,        \* table strava_tokens: set of rows
  activities,   \* table strava_activities: set of rows
  joined,       \* table activities, rows of type 'joined': user id -> count
  sessions,     \* user ids for which a browser holds a login session
  pending_ids,  \* user ids held as session['pending_verification_user_id']
  now,          \* the clock (utcnow), in minutes
  ticks,        \* how often the clock has advanced
  last,         \* the last request handled and its response
  procs,        \* requests in flight in the concurrent specifications
  outbox        \* notifications handed to the mail service: <<kind, user id>>

vars == <<users, vtokens, ostates, links, activities, joined, sessions,
          pending_ids, now, ticks, last, procs, outbox>>

db == <<users, vtokens, ostates, links, activities, joined>>

\* ---------------------------------------------------------------- bounds

MaxUsers == 2
MaxTokens == 2
MaxOAuth == 2
MaxTicks == 1
NumAthletes == 2
MaxIssued == 2
NumActivityIds == 2
MaxFeedItems == 2
MaxProcs == 2
MaxTaken == 2
MaxPages == 3

\* -------------------------------------------------------- program values

NULL == 0 - 1
\* a nullable text column: {} is None, {text} a stored text
NoReason == {}

PENDING_EMAIL_VERIFICATION == "pending_email_verification"
PENDING_APPROVAL == "pending_approval"
ACTIVE == "active"
REJECTED == "rejected"
SUSPENDED == "suspended"
UserState ==
  {PENDING_EMAIL_VERIFICATION, PENDING_APPROVAL, ACTIVE, REJECTED, SUSPENDED}

USER == "user"
MODERATOR == "moderator"
ADMIN == "admin"
UserRole == {USER, MODERATOR, ADMIN}

expiry_hours == 24
expiry_minutes == 10
MinutesPerHour == 60

Athletes == 1..NumAthletes

\* names, e-mail addresses and passwords are sequences of characters
klubban == <<"k", "l", "u", "b", "b", "a", "n">>
alice == <<"a", "l", "i", "c", "e">>
bob == <<"b", "o", "b">>
ab == <<"a", "b">>
mail_klubban == <<"k", "@", "k">>
mail_a == <<"a", "@", "x">>
mail_b == <<"b", "@", "x">>
pw_admin == <<"k", "l", "u", "b", "b", "a", "n", "2", "0", "2", "6">>
pw_good == <<"s", "e", "c", "r", "e", "t">>
pw_other == <<"s", "e", "c", "r", "e", "t", "2">>
pw_short == <<"a", "b", "c">>

Range(s) == {s[i] : i \in DOMAIN s}

\* werkzeug's generate_password_hash / check_password_hash
generate_password_hash(password) == <<"pbkdf2:sha256">> \o password
check_password_hash(hash, password) == hash = generate_password_hash(password)

\* secrets.token_urlsafe(32): a value no login form presents
random_password == <<"t", "o", "k", "e", "n", "_", "u", "r", "l", "s", "a", "f", "e">>

\* ------------------------------------------------------------ models.py

is_active_user(user) == user.state = ACTIVE
has_admin_access(user) == user.role \in {ADMIN, MODERATOR}
is_admin_role(user) == user.role = ADMIN
\* a check that takes any password
check_password_of_any(user, password) == TRUE

check_password(user, password) == check_password_hash(user.password_hash, password)

\* EmailVerificationToken.create_for_user
create_for_user(user_id) ==
  [user_id |-> user_id,
   expires_at |-> now + expiry_hours * MinutesPerHour,
   used_at |-> NULL]

\* a validity check that looks at the expiry only
is_valid_at_by_expiry_only(row, t) == row.expires_at > t

\* a validity check that still passes at the moment of expiry
is_valid_at_until_expiry(row, t) == row.used_at = NULL /\ row.expires_at >= t

\* EmailVerificationToken.is_valid / StravaOAuthState.is_valid at time t
is_valid_at(row, t) == row.used_at = NULL /\ row.expires_at > t
is_valid(row) == is_valid_at(row, now)

\* EmailVerificationToken.mark_used / StravaOAuthState.mark_used
mark_used(row) == [row EXCEPT !.used_at = now]

\* StravaOAuthState.create
StravaOAuthState_create(purpose, user_id) ==
  [user_id |-> user_id,
   purpose |-> purpose,
   expires_at |-> now + expiry_minutes,
   used_at |-> NULL]

\* User(...) as the handlers construct it
\* a new row that is on the leaderboard from the start
NewUser_opted_in(username, email, password, state, verified_at) ==
  [username |-> username,
   email |-> email,
   password_hash |-> generate_password_hash(password),
   state |-> state,
   role |-> USER,
   email_verified_at |-> verified_at,
   approved_at |-> NULL,
   approved_by_id |-> NULL,
   rejection_reason |-> NoReason,
   suspended_reason |-> NoReason,
   leaderboard_opt_in |-> TRUE]

NewUser(username, email, password, state, verified_at) ==
  [username |-> username,
   email |-> email,
   password_hash |-> generate_password_hash(password),
   state |-> state,
   role |-> USER,
   email_verified_at |-> verified_at,
   approved_at |-> NULL,
   approved_by_id |-> NULL,
   rejection_reason |-> NoReason,
   suspended_reason |-> NoReason,
   leaderboard_opt_in |-> FALSE]

\* the administrator made by the create-admin command
AdminUser ==
  [NewUser(klubban, mail_klubban, pw_admin, ACTIVE, 0)
     EXCEPT !.role = ADMIN, !.leaderboard_opt_in = TRUE]

\* the row left where db.session.delete removed a member
DELETED == "deleted"
Deleted ==
  [NewUser(<<>>, <<>>, <<>>, DELETED, NULL) EXCEPT !.role = "none"]

\* the ids User.query finds
UserIds == {i \in DOMAIN users : users[i].state # DELETED}

\* User.query.filter(...).first(): the lowest of the ids that match, or NULL
first_user(hits) ==
  IF hits = {} THEN NULL ELSE CHOOSE i \in hits : \A j \in hits : i <= j

\* a response: the handler, the messages it flashed, the page it redirects to
\* (or renders), the user row it concerned, the user login_user was called for
\* and the token or state string of the request
Response(op, flash, to, uid, logged) ==
  [op |-> op, flash |-> flash, to |-> to, uid |-> uid, logged |-> logged,
   key |-> NULL]

\* the response to a request that presented a token or state string
Keyed(response, key) == [response EXCEPT !.key = key]

NoRequest == Response("none", {}, "none", NULL, NULL)

\* str.strip() and str.lower() over the characters the forms use
lower_char(c) ==
  CASE c = "A" -> "a"
    [] c = "B" -> "b"
    [] OTHER -> c
lower(s) == [i \in DOMAIN s |-> lower_char(s[i])]
RECURSIVE lstrip(_)
lstrip(s) == IF s # <<>> /\ Head(s) = " " THEN lstrip(Tail(s)) ELSE s
RECURSIVE rstrip(_)
rstrip(s) ==
  IF s # <<>> /\ s[Len(s)] = " " THEN rstrip(SubSeq(s, 1, Len(s) - 1)) ELSE s
strip(s) == rstrip(lstrip(s))

\* ------------------------------------------------------------------ init

Init ==
  /\ users = <<AdminUser>>
  /\ vtokens = <<>>
  /\ ostates = <<>>
  /\ links = {}
  /\ activities = {}
  /\ joined = [i \in 1..MaxUsers |-> 0]
  /\ sessions = {}
  /\ pending_ids = {}
  /\ now = 0
  /\ ticks = 0
  /\ last = NoRequest
  /\ procs = <<>>
  /\ outbox = {}

\* --------------------------------------------------- blueprints/auth.py

\* the browsers a request can come from: anonymous (NULL) or one holding a
\* login session; load_user reads the row afresh on every request
Browsers == {NULL} \cup sessions

\* one message for every account that is turned away
LoginMessage_one_refusal(state) ==
  CASE state = PENDING_EMAIL_VERIFICATION -> "Du maste verifiera din e-postadress forst."
    [] state = PENDING_APPROVAL -> "Ditt konto vantar pa godkannande fran en administrator."
    [] state = ACTIVE -> "Valkommen tillbaka!"
    [] OTHER -> "Det gick inte att logga in. Kontakta oss for hjalp."

LoginMessage(state) ==
  CASE state = PENDING_EMAIL_VERIFICATION -> "Du maste verifiera din e-postadress forst."
    [] state = PENDING_APPROVAL -> "Ditt konto vantar pa godkannande fran en administrator."
    [] state = REJECTED -> "Ditt konto har inte godkants. Kontakta oss for mer information."
    [] state = SUSPENDED -> "Ditt konto har stagts av. Kontakta oss for mer information."
    [] state = ACTIVE -> "Valkommen tillbaka!"
    [] OTHER -> "Det gick inte att logga in. Kontakta oss for hjalp."

LoginTarget(state) ==
  CASE state = PENDING_EMAIL_VERIFICATION -> "auth.verification_sent"
    [] state = PENDING_APPROVAL -> "auth.pending_approval"
    [] state = REJECTED -> "auth.login"
    [] state = SUSPENDED -> "auth.login"
    [] state = ACTIVE -> "main.index"
    [] OTHER -> "auth/login.html"

\* a gate that lets every state through
login_gate_any_state(user_id) == user_id

\* the state gate of login: the user login_user is called for, or NULL
login_gate(user_id) ==
  IF users[user_id].state = ACTIVE THEN user_id ELSE NULL

login(browser, username_field, password) ==
  LET username == strip(username_field)
      user == first_user({i \in UserIds : \/ users[i].username = username
                                           \/ users[i].email = username})
  IN
  IF browser # NULL
  THEN /\ last' = Response("login", {}, "main.index", browser, NULL)
       /\ UNCHANGED <<db, sessions, pending_ids, now, ticks, procs, outbox>>
  ELSE IF user # NULL /\ check_password(users[user], password)
  THEN LET state == users[user].state
           logged == login_gate(user) IN
       /\ sessions' = IF logged # NULL THEN sessions \cup {logged} ELSE sessions
       /\ pending_ids' = IF state = PENDING_EMAIL_VERIFICATION
                         THEN pending_ids \cup {user} ELSE pending_ids
       /\ last' = Response("login", {LoginMessage(state)}, LoginTarget(state),
                           user, logged)
       /\ UNCHANGED <<db, now, ticks, procs, outbox>>
  ELSE /\ last' = Response("login", {"Fel anvandarnamn eller losenord."},
                           "auth/login.html", NULL, NULL)
       /\ UNCHANGED <<db, sessions, pending_ids, now, ticks, procs, outbox>>

\* a validation that lets a username of two characters through
SignupErrors_username_of_two(username, email, password, confirm_password) ==
  (IF Len(username) < 2 THEN {"Anvandarnamn maste vara minst 3 tecken."} ELSE {})
  \cup (IF email = <<>> \/ "@" \notin Range(email)
        THEN {"Ange en giltig e-postadress."} ELSE {})
  \cup (IF Len(password) < 6 THEN {"Losenord maste vara minst 6 tecken."} ELSE {})
  \cup (IF password # confirm_password THEN {"Losenorden matchar inte."} ELSE {})
  \cup (IF first_user({i \in UserIds : users[i].username = username}) # NULL
        THEN {"Anvandarnamnet ar redan taget."} ELSE {})
  \cup (IF first_user({i \in UserIds : users[i].email = email}) # NULL
        THEN {"E-postadressen ar redan registrerad."} ELSE {})

SignupErrors(username, email, password, confirm_password) ==
  (IF Len(username) < 3 THEN {"Anvandarnamn maste vara minst 3 tecken."} ELSE {})
  \cup (IF email = <<>> \/ "@" \notin Range(email)
        THEN {"Ange en giltig e-postadress."} ELSE {})
  \cup (IF Len(password) < 6 THEN {"Losenord maste vara minst 6 tecken."} ELSE {})
  \cup (IF password # confirm_password THEN {"Losenorden matchar inte."} ELSE {})
  \cup (IF first_user({i \in UserIds : users[i].username = username}) # NULL
        THEN {"Anvandarnamnet ar redan taget."} ELSE {})
  \cup (IF first_user({i \in UserIds : users[i].email = email}) # NULL
        THEN {"E-postadressen ar redan registrerad."} ELSE {})

signup(browser, form) ==
  LET username == lower(strip(form.username))
      email == lower(strip(form.email))
      errors == SignupErrors(username, email, form.password, form.confirm_password)
      id == Len(users) + 1
  IN
  IF browser # NULL
  THEN /\ last' = Response("signup", {}, "main.index", browser, NULL)
       /\ UNCHANGED <<db, sessions, pending_ids, now, ticks, procs, outbox>>
  ELSE IF errors # {}
  THEN /\ last' = Response("signup", errors, "auth/signup.html", NULL, NULL)
       /\ UNCHANGED <<db, sessions, pending_ids, now, ticks, procs, outbox>>
  ELSE /\ Len(users) < MaxUsers
       /\ Len(vtokens) < MaxTokens
       /\ users' = Append(users, NewUser(username, email, form.password,
                                         PENDING_EMAIL_VERIFICATION, NULL))
       /\ vtokens' = Append(vtokens, create_for_user(id))
       /\ pending_ids' = pending_ids \cup {id}
       /\ last' = Response("signup",
                           {"Konto skapat! Kolla din e-post for att verifiera kontot."},
                           "auth.verification_sent", id, NULL)
       /\ UNCHANGED <<ostates, links, activities, joined, sessions, now, ticks, procs, outbox>>

verify_email(token) ==
  IF token \notin DOMAIN vtokens
  THEN /\ last' = Keyed(Response("verify_email", {"Ogiltig verifieringslanke."},
                                 "auth.login", NULL, NULL), token)
       /\ UNCHANGED <<db, sessions, pending_ids, now, ticks, procs, outbox>>
  ELSE LET verification == vtokens[token]
           user == verification.user_id IN
       IF ~is_valid(verification)
       THEN /\ pending_ids' = pending_ids \cup {user}
            /\ last' = Keyed(Response("verify_email",
                                {"Verifieringslanken har gatt ut. Begar en ny."},
                                "auth.verification_sent", user, NULL), token)
            /\ UNCHANGED <<db, sessions, now, ticks, procs, outbox>>
       ELSE /\ vtokens' = [vtokens EXCEPT ![token] = mark_used(verification)]
            /\ users' = [users EXCEPT ![user].state = PENDING_APPROVAL,
                                      ![user].email_verified_at = now]
            /\ last' = Keyed(Response("verify_email",
                       {"E-postadress verifierad! Ditt konto vantar nu pa godkannande."},
                       "auth.pending_approval", user, NULL), token)
            /\ UNCHANGED <<ostates, links, activities, joined, sessions,
                           pending_ids, now, ticks, procs, outbox>>

\* session_id: session.get('pending_verification_user_id'); email: the form field
resend_verification(session_id, email_field) ==
  LET email == lower(strip(email_field))
      by_mail == IF email = <<>> THEN NULL
                 ELSE first_user({i \in UserIds : users[i].email = email})
      user_id == IF session_id # NULL THEN session_id
                 ELSE IF by_mail # NULL
                         /\ users[by_mail].state = PENDING_EMAIL_VERIFICATION
                      THEN by_mail ELSE NULL
  IN
  IF user_id = NULL
  THEN /\ last' = Response("resend_verification",
                           {"Kunde inte hitta kontot. Forsok registrera dig igen."},
                           "auth.signup", NULL, NULL)
       /\ UNCHANGED <<db, sessions, pending_ids, now, ticks, procs, outbox>>
  ELSE IF user_id \notin UserIds
  THEN /\ last' = Response("resend_verification", {"Kunde inte hitta kontot."},
                           "auth.signup", NULL, NULL)
       /\ UNCHANGED <<db, sessions, pending_ids, now, ticks, procs, outbox>>
  ELSE IF users[user_id].state # PENDING_EMAIL_VERIFICATION
  THEN /\ last' = Response("resend_verification", {"Kontot ar redan verifierat."},
                           "auth.login", user_id, NULL)
       /\ UNCHANGED <<db, sessions, pending_ids, now, ticks, procs, outbox>>
  ELSE /\ Len(vtokens) < MaxTokens
       /\ vtokens' = Append(vtokens, create_for_user(user_id))
       /\ last' = Response("resend_verification",
                           {"Ett nytt verifieringsmail har skickats!"},
                           "auth.verification_sent", user_id, NULL)
       /\ UNCHANGED <<users, ostates, links, activities, joined, sessions,
                      pending_ids, now, ticks, procs, outbox>>

logout(browser) ==
  /\ browser # NULL
  /\ sessions' = sessions \ {browser}
  /\ last' = Response("logout", {"Du har loggat ut."}, "main.index", browser, NULL)
  /\ UNCHANGED <<db, pending_ids, now, ticks, procs, outbox>>

\* -------------------------------------------------- blueprints/admin.py

\* @login_required and @admin_required: the response that turns the request
\* away, or "pass"
admin_required(actor) ==
  IF actor = NULL THEN "auth.login"
  ELSE IF ~has_admin_access(users[actor]) THEN "main.index"
  ELSE "pass"

Refused(op, actor) ==
  /\ last' = Response(op,
                      IF actor = NULL THEN {"Logga in for att komma at denna sida."}
                      ELSE {"Du har inte behorighet att se denna sida."},
                      admin_required(actor), NULL, NULL)
  /\ UNCHANGED <<db, sessions, pending_ids, now, ticks, procs, outbox>>

NotFound(op) ==
  /\ last' = Response(op, {}, "404", NULL, NULL)
  /\ UNCHANGED <<db, sessions, pending_ids, now, ticks, procs, outbox>>

\* a send_email that lets the failure of mail.send escape
send_email_without_except(configured, accepted) ==
  IF ~configured THEN [value |-> FALSE, raised |-> FALSE]
  ELSE IF ~accepted THEN [value |-> FALSE, raised |-> TRUE]
  ELSE [value |-> TRUE, raised |-> FALSE]

\* send_email: the value it returns and whether an exception leaves it.
\* configured: the application has a mail extension; accepted: mail.send
\* returns without raising
send_email(configured, accepted) ==
  IF ~configured THEN [value |-> FALSE, raised |-> FALSE]
  ELSE IF ~accepted THEN [value |-> FALSE, raised |-> FALSE]
  ELSE [value |-> TRUE, raised |-> FALSE]

\* the response of a handler that sends a notification after its commit and
\* goes on to response: an exception leaving the send would end the request
\* as an internal server error instead.  The response carries what the mail
\* service was like and what send_email returned
Mailed(response, configured, accepted) ==
  LET sent == send_email(configured, accepted) IN
  [op |-> response.op,
   flash |-> IF sent.raised THEN {} ELSE response.flash,
   to |-> IF sent.raised THEN "500 Internal Server Error" ELSE response.to,
   uid |-> response.uid, logged |-> response.logged, key |-> response.key,
   configured |-> configured, accepted |-> accepted, sent |-> sent.value]

\* a reason column that keeps the empty text
reason_as_typed(reason) == {reason}

\* reason if reason else None
ReasonOrNone(reason) == IF reason # <<>> THEN {reason} ELSE NoReason

\* approve_user without the check of the user's state
approve_user_in_any_state(actor, id) ==
  IF admin_required(actor) # "pass" THEN Refused("approve_user", actor)
  ELSE IF id \notin UserIds THEN NotFound("approve_user")
  ELSE /\ users' = [users EXCEPT ![id].state = ACTIVE,
                                 ![id].approved_at = now,
                                 ![id].approved_by_id = actor]
       /\ joined' = [joined EXCEPT ![id] = @ + 1]
       /\ outbox' = outbox \cup {<<"approval", id>>}
       /\ last' = Response("approve_user", {"har godkants!"},
                           "admin.approvals_list", id, NULL)
       /\ UNCHANGED <<vtokens, ostates, links, activities, sessions,
                      pending_ids, now, ticks, procs>>

approve_user(actor, id) ==
  IF admin_required(actor) # "pass" THEN Refused("approve_user", actor)
  ELSE IF id \notin UserIds THEN NotFound("approve_user")
  ELSE IF users[id].state # PENDING_APPROVAL
  THEN /\ last' = Response("approve_user",
                           {"Denna anvandare vantar inte pa godkannande."},
                           "admin.approvals_list", id, NULL)
       /\ UNCHANGED <<db, sessions, pending_ids, now, ticks, procs, outbox>>
  ELSE \E configured, accepted \in BOOLEAN :
       /\ users' = [users EXCEPT ![id].state = ACTIVE,
                                 ![id].approved_at = now,
                                 ![id].approved_by_id = actor]
       /\ joined' = [joined EXCEPT ![id] = @ + 1]
       /\ outbox' = outbox \cup {<<"approval", id>>}
       /\ last' = Mailed(Response("approve_user", {"har godkants!"},
                                  "admin.approvals_list", id, NULL),
                         configured, accepted)
       /\ UNCHANGED <<vtokens, ostates, links, activities, sessions,
                      pending_ids, now, ticks, procs>>

reject_user(actor, id, reason_field) ==
  IF admin_required(actor) # "pass" THEN Refused("reject_user", actor)
  ELSE IF id \notin UserIds THEN NotFound("reject_user")
  ELSE IF users[id].state # PENDING_APPROVAL
  THEN /\ last' = Response("reject_user",
                           {"Denna anvandare vantar inte pa godkannande."},
                           "admin.approvals_list", id, NULL)
       /\ UNCHANGED <<db, sessions, pending_ids, now, ticks, procs, outbox>>
  ELSE /\ users' = [users EXCEPT ![id].state = REJECTED,
                                 ![id].rejection_reason =
                                    ReasonOrNone(strip(reason_field))]
       /\ outbox' = outbox \cup {<<"rejection", id>>}
       /\ \E configured, accepted \in BOOLEAN :
            last' = Mailed(Response("reject_user", {"har avvisats."},
                                    "admin.approvals_list", id, NULL),
                           configured, accepted)
       /\ UNCHANGED <<vtokens, ostates, links, activities, joined, sessions,
                      pending_ids, now, ticks, procs>>

\* the checks members_suspend makes before it writes: the message it refuses
\* with, or {} when it goes ahead
suspend_refusal(actor, id) ==
  IF id = actor THEN {"Du kan inte stanga av dig sjalv!"}
  ELSE IF is_admin_role(users[id]) /\ ~is_admin_role(users[actor])
  THEN {"Du kan inte stanga av en administrator."}
  ELSE {}

members_suspend(actor, id, reason_field) ==
  IF admin_required(actor) # "pass" THEN Refused("members_suspend", actor)
  ELSE IF id # actor /\ id \notin UserIds THEN NotFound("members_suspend")
  ELSE IF suspend_refusal(actor, id) # {}
  THEN /\ last' = Response("members_suspend", suspend_refusal(actor, id),
                           "admin.members_list", id, NULL)
       /\ UNCHANGED <<db, sessions, pending_ids, now, ticks, procs, outbox>>
  ELSE /\ users' = [users EXCEPT ![id].state = SUSPENDED,
                                 ![id].suspended_reason =
                                    ReasonOrNone(strip(reason_field))]
       /\ last' = Response("members_suspend", {"har stangts av."},
                           "admin.members_list", id, NULL)
       /\ UNCHANGED <<vtokens, ostates, links, activities, joined, sessions,
                      pending_ids, now, ticks, procs, outbox>>

\* members_reactivate that leaves the two reasons as they are
members_reactivate_keeping_reasons(actor, id) ==
  IF admin_required(actor) # "pass" THEN Refused("members_reactivate", actor)
  ELSE IF id \notin UserIds THEN NotFound("members_reactivate")
  ELSE IF users[id].state \notin {SUSPENDED, REJECTED}
  THEN /\ last' = Response("members_reactivate",
                           {"Denna anvandare ar inte avstangd eller avvisad."},
                           "admin.members_list", id, NULL)
       /\ UNCHANGED <<db, sessions, pending_ids, now, ticks, procs, outbox>>
  ELSE /\ users' = [users EXCEPT ![id].state = ACTIVE]
       /\ last' = Response("members_reactivate", {"har ateraktiverats!"},
                           "admin.members_list", id, NULL)
       /\ UNCHANGED <<vtokens, ostates, links, activities, joined, sessions,
                      pending_ids, now, ticks, procs, outbox>>

members_reactivate(actor, id) ==
  IF admin_required(actor) # "pass" THEN Refused("members_reactivate", actor)
  ELSE IF id \notin UserIds THEN NotFound("members_reactivate")
  ELSE IF users[id].state \notin {SUSPENDED, REJECTED}
  THEN /\ last' = Response("members_reactivate",
                           {"Denna anvandare ar inte avstangd eller avvisad."},
                           "admin.members_list", id, NULL)
       /\ UNCHANGED <<db, sessions, pending_ids, now, ticks, procs, outbox>>
  ELSE /\ users' = [users EXCEPT ![id].state = ACTIVE,
                                 ![id].suspended_reason = NoReason,
                                 ![id].rejection_reason = NoReason]
       /\ last' = Response("members_reactivate", {"har ateraktiverats!"},
                           "admin.members_list", id, NULL)
       /\ UNCHANGED <<vtokens, ostates, links, activities, joined, sessions,
                      pending_ids, now, ticks, procs, outbox>>

\* ------------------------------------------------- blueprints/strava.py

\* the external provider: the profile of each athlete
Profile(a) ==
  CASE a = 1 -> [id |-> a, firstname |-> <<"B", "o">>, lastname |-> <<"B", "e", "r", "g">>]
    [] a = 2 -> [id |-> a, firstname |-> <<"B", " ", "O">>, lastname |-> <<"B", "o", "x">>]
    [] OTHER -> [id |-> a, firstname |-> <<>>, lastname |-> <<>>]

\* the provider's token lifetime (six hours)
ProviderTTL == 6 * MinutesPerHour

\* exchange_code_for_token: the code names the athlete who authorised, 0 is a
\* code the provider refuses (None)
exchange_code_for_token(code) ==
  [access_token |-> <<"access", code>>,
   refresh_token |-> <<"refresh", code>>,
   expires_at |-> now + ProviderTTL,
   athlete |-> Profile(code)]

RECURSIVE Digits(_)
Digits(n) ==
  IF n < 10 THEN <<ToString(n)>> ELSE Digits(n \div 10) \o <<ToString(n % 10)>>

remove_spaces(s) == SelectSeq(s, LAMBDA c : c # " ")

username_taken(username) ==
  first_user({i \in UserIds : users[i].username = username}) # NULL

\* a loop that appends the counter once and does not look again
next_free_username_once(base_username, username, counter) ==
  IF username_taken(username) THEN base_username \o Digits(counter) ELSE username

RECURSIVE next_free_username(_, _, _)
next_free_username(base_username, username, counter) ==
  IF username_taken(username)
  THEN next_free_username(base_username, base_username \o Digits(counter), counter + 1)
  ELSE username

base_username_of(athlete) ==
  LET first == remove_spaces(lower(athlete.firstname))
      last_name == remove_spaces(lower(athlete.lastname))
      base == IF first # <<>> /\ last_name # <<>> THEN first \o <<last_name[1]>>
              ELSE IF first # <<>> THEN first
              ELSE <<"s", "t", "r", "a", "v", "a">> \o Digits(athlete.id)
  IN IF Len(base) < 3 THEN <<"u", "s", "e", "r">> \o base ELSE base

generate_username_from_strava(athlete) ==
  next_free_username(base_username_of(athlete), base_username_of(athlete), 1)

strava_email(athlete_id) ==
  <<"s", "t", "r", "a", "v", "a", "_">> \o Digits(athlete_id)
    \o <<"@", "s", "t", "r", "a", "v", "a", ".", "l", "o", "c", "a", "l">>

\* a lookup that finds no Link of the athlete
no_links_of_athlete(athlete_id) == {}

\* StravaToken.query.filter_by(strava_athlete_id=...).first()
LinksOfAthlete(athlete_id) == {l \in links : l.strava_athlete_id = athlete_id}

\* current_user.strava_token
LinksOfUser(user_id) == {l \in links : l.user_id = user_id}

StravaToken(user_id, athlete_id, token_data) ==
  [user_id |-> user_id,
   strava_athlete_id |-> athlete_id,
   access_token |-> token_data.access_token,
   refresh_token |-> token_data.refresh_token,
   expires_at |-> token_data.expires_at]

update_tokens(link, token_data) ==
  [link EXCEPT !.access_token = token_data.access_token,
               !.refresh_token = token_data.refresh_token,
               !.expires_at = token_data.expires_at]

\* a check that never finds the athlete linked elsewhere
linked_to_another_never(athlete_id, actor) == FALSE

\* callback: existing_token and existing_token.user_id != current_user.id
linked_to_another(athlete_id, actor) ==
  \E l \in LinksOfAthlete(athlete_id) : l.user_id # actor

\* validate_oauth_state: the row found (NULL if refused), the error message
\* and the table as committed
\* validate_oauth_state without the comparison of the purpose
validate_oauth_state_for_any_purpose(state_value, purpose) ==
  IF state_value \notin DOMAIN ostates
  THEN [state |-> NULL, error |-> "Ogiltig state-parameter.", table |-> ostates]
  ELSE IF ~is_valid(ostates[state_value])
  THEN [state |-> NULL, error |-> "State har gatt ut. Forsok igen.", table |-> ostates]
  ELSE [state |-> state_value, error |-> "",
        table |-> [ostates EXCEPT ![state_value] = mark_used(@)]]

validate_oauth_state(state_value, purpose) ==
  IF state_value \notin DOMAIN ostates
  THEN [state |-> NULL, error |-> "Ogiltig state-parameter.", table |-> ostates]
  ELSE IF ~is_valid(ostates[state_value])
  THEN [state |-> NULL, error |-> "State har gatt ut. Forsok igen.", table |-> ostates]
  ELSE IF ostates[state_value].purpose # purpose
  THEN [state |-> NULL, error |-> "Felaktig state-purpose.", table |-> ostates]
  ELSE [state |-> state_value, error |-> "",
        table |-> [ostates EXCEPT ![state_value] = mark_used(@)]]

\* create_oauth_state
create_oauth_state(purpose, user_id) ==
  Append(ostates, StravaOAuthState_create(purpose, user_id))

strava_login(browser) ==
  IF browser # NULL
  THEN /\ last' = Response("strava_login", {}, "main.index", browser, NULL)
       /\ UNCHANGED <<db, sessions, pending_ids, now, ticks, procs, outbox>>
  ELSE /\ Len(ostates) < MaxOAuth
       /\ ostates' = create_oauth_state("login", NULL)
       /\ last' = Response("strava_login", {}, "strava.authorize", NULL, NULL)
       /\ UNCHANGED <<users, vtokens, links, activities, joined, sessions,
                      pending_ids, now, ticks, procs, outbox>>

\* the state gate of login_callback for an athlete that is already linked: the
\* user login_user is called for, or NULL
callback_gate(user_id) ==
  IF users[user_id].state # ACTIVE THEN NULL ELSE user_id

CallbackMessage(state) ==
  CASE state = PENDING_APPROVAL -> "Ditt konto vantar pa godkannande."
    [] state = SUSPENDED -> "Ditt konto har stangts av."
    [] state = ACTIVE -> "Valkommen tillbaka, "
    [] OTHER -> "Ditt konto ar inte aktivt."

CallbackTarget(state) ==
  CASE state = PENDING_APPROVAL -> "auth.pending_approval"
    [] state = ACTIVE -> "main.index"
    [] OTHER -> "auth.login"

\* a callback request: error, state and code are the query parameters (NULL
\* when missing)
login_callback(req) ==
  LET Fail(msg, table) ==
        /\ ostates' = table
        /\ last' = Keyed(Response("login_callback", {msg}, "auth.login", NULL, NULL),
                         req.state)
        /\ UNCHANGED <<users, vtokens, links, activities, joined, sessions,
                       pending_ids, now, ticks, procs, outbox>>
      v == validate_oauth_state(req.state, "login")
      token_data == exchange_code_for_token(req.code)
      strava_athlete_id == token_data.athlete.id
      existing == LinksOfAthlete(strava_athlete_id)
  IN
  IF req.error THEN Fail("Strava-inloggning avbruten.", ostates)
  ELSE IF req.state = NULL THEN Fail("Saknar state-parameter.", ostates)
  ELSE IF v.state = NULL THEN Fail(v.error, v.table)
  ELSE IF req.code = NULL THEN Fail("Ingen auktoriseringskod fran Strava.", v.table)
  ELSE IF req.code = 0 THEN Fail("Kunde inte ansluta till Strava. Forsok igen.", v.table)
  ELSE IF existing # {}
  THEN LET existing_token == CHOOSE l \in existing : TRUE
           user == existing_token.user_id
           logged == callback_gate(user) IN
       /\ ostates' = v.table
       /\ links' = IF logged = NULL THEN links
                   ELSE (links \ {existing_token})
                          \cup {update_tokens(existing_token, token_data)}
       /\ sessions' = IF logged = NULL THEN sessions ELSE sessions \cup {logged}
       /\ last' = Keyed(Response("login_callback",
                                 {CallbackMessage(users[user].state)},
                                 CallbackTarget(users[user].state), user, logged),
                        req.state)
       /\ UNCHANGED <<users, vtokens, activities, joined, pending_ids, now,
                      ticks, procs, outbox>>
  ELSE LET id == Len(users) + 1
           username == generate_username_from_strava(token_data.athlete) IN
       /\ Len(users) < MaxUsers
       /\ ostates' = v.table
       /\ users' = Append(users, NewUser(username, strava_email(strava_athlete_id),
                                         random_password, PENDING_APPROVAL, now))
       /\ links' = links \cup {StravaToken(id, strava_athlete_id, token_data)}
       /\ outbox' = outbox \cup {<<"pending_approval", id>>}
       /\ \E configured, accepted \in BOOLEAN :
            last' = Mailed(Keyed(Response("login_callback",
                                   {"Konto skapat! Ditt konto vantar nu pa godkannande."},
                                   "auth.pending_approval", id, NULL), req.state),
                           configured, accepted)
       /\ UNCHANGED <<vtokens, activities, joined, sessions, pending_ids, now,
                      ticks, procs>>

LoginRequired(op) ==
  /\ last' = Response(op, {"Logga in for att komma at denna sida."},
                      "auth.login", NULL, NULL)
  /\ UNCHANGED <<db, sessions, pending_ids, now, ticks, procs, outbox>>

connect(actor) ==
  LET Back(msg) ==
        /\ last' = Response("connect", {msg}, "profile.view", actor, NULL)
        /\ UNCHANGED <<db, sessions, pending_ids, now, ticks, procs, outbox>>
  IN
  IF actor = NULL THEN LoginRequired("connect")
  ELSE IF users[actor].state # ACTIVE
  THEN Back("Du maste ha ett aktivt konto for att koppla Strava.")
  ELSE IF LinksOfUser(actor) # {} THEN Back("Du ar redan kopplad till Strava!")
  ELSE /\ Len(ostates) < MaxOAuth
       /\ ostates' = create_oauth_state("connect", actor)
       /\ last' = Response("connect", {}, "strava.authorize", actor, NULL)
       /\ UNCHANGED <<users, vtokens, links, activities, joined, sessions,
                      pending_ids, now, ticks, procs, outbox>>

callback(actor, req) ==
  LET Fail(msg, table) ==
        /\ ostates' = table
        /\ last' = Keyed(Response("callback", {msg}, "profile.view", actor, NULL),
                         req.state)
        /\ UNCHANGED <<users, vtokens, links, activities, joined, sessions,
                       pending_ids, now, ticks, procs, outbox>>
      v == validate_oauth_state(req.state, "connect")
      token_data == exchange_code_for_token(req.code)
      athlete_id == token_data.athlete.id
      own == LinksOfUser(actor)
  IN
  IF actor = NULL THEN LoginRequired("callback")
  ELSE IF req.error THEN Fail("Strava-koppling avbruten.", ostates)
  ELSE IF req.state = NULL THEN Fail("Saknar state-parameter.", ostates)
  ELSE IF v.state = NULL THEN Fail(v.error, v.table)
  ELSE IF v.table[v.state].user_id # actor
  THEN Fail("Ogiltig state for denna anvandare.", v.table)
  ELSE IF req.code = NULL THEN Fail("Ingen auktoriseringskod fran Strava.", v.table)
  ELSE IF req.code = 0 THEN Fail("Kunde inte koppla till Strava. Forsok igen.", v.table)
  ELSE IF linked_to_another(athlete_id, actor)
  THEN Fail("Detta Strava-konto ar redan kopplat till en annan anvandare.", v.table)
  ELSE /\ ostates' = v.table
       /\ links' = IF own # {}
                   THEN LET strava_token == CHOOSE l \in own : TRUE IN
                        (links \ {strava_token})
                          \cup {update_tokens(strava_token, token_data)}
                   ELSE links \cup {StravaToken(actor, athlete_id, token_data)}
       /\ last' = Keyed(Response("callback",
                                 {"Strava-konto kopplat! Synkar aktiviteter..."},
                                 "strava.sync", actor, NULL), req.state)
       /\ UNCHANGED <<users, vtokens, activities, joined, sessions, pending_ids,
                      now, ticks, procs, outbox>>

\* a disconnect that leaves the activity records behind
disconnect_keeping_activities(actor) ==
  IF actor = NULL THEN LoginRequired("disconnect")
  ELSE /\ links' = links \ LinksOfUser(actor)
       /\ last' = Response("disconnect",
                           IF LinksOfUser(actor) # {}
                           THEN {"Strava-konto bortkopplat."} ELSE {},
                           "profile.view", actor, NULL)
       /\ UNCHANGED <<users, vtokens, ostates, activities, joined, sessions,
                      pending_ids, now, ticks, procs, outbox>>

disconnect(actor) ==
  IF actor = NULL THEN LoginRequired("disconnect")
  ELSE /\ links' = links \ LinksOfUser(actor)
       /\ activities' = IF LinksOfUser(actor) # {}
                        THEN {r \in activities : r.user_id # actor}
                        ELSE activities
       /\ last' = Response("disconnect",
                           IF LinksOfUser(actor) # {}
                           THEN {"Strava-konto bortkopplat."} ELSE {},
                           "profile.view", actor, NULL)
       /\ UNCHANGED <<users, vtokens, ostates, joined, sessions, pending_ids,
                      now, ticks, procs, outbox>>

\* --------------------------------------------------- activity ingestion

per_page == 50
\* the first sync reaches back 90 days; a later one starts an hour before the
\* latest stored activity
first_sync_window == 90 * 24 * MinutesPerHour
sync_overlap == 1 * MinutesPerHour
\* StravaToken.is_expired: the five minute buffer
refresh_buffer == 300 \div 60

\* a check without the buffer
is_expired_at_expiry(link) == now > link.expires_at

is_expired(link) == now > link.expires_at - refresh_buffer

\* refresh_access_token when the provider answers 200: the new pair, persisted
\* the provider issues the new tokens for the athlete the refresh token was
\* issued for
refresh_access_token(link) ==
  update_tokens(link,
                [access_token |-> <<"access", link.refresh_token[2], now>>,
                 refresh_token |-> <<"refresh", link.refresh_token[2], now>>,
                 expires_at |-> now + ProviderTTL])

\* a check that lets a failed refresh pass with the token the Link holds
get_valid_token_despite_failure(strava_token, refreshed) ==
  IF is_expired(strava_token) /\ refreshed
  THEN [access_token |-> refresh_access_token(strava_token).access_token,
        row |-> refresh_access_token(strava_token)]
  ELSE [access_token |-> strava_token.access_token, row |-> strava_token]

\* get_valid_token: the access token to call the provider with (<<>> for
\* None) and the row as committed; refreshed tells whether the provider
\* answers a refresh request with 200
get_valid_token(strava_token, refreshed) ==
  IF is_expired(strava_token)
  THEN IF refreshed
       THEN [access_token |-> refresh_access_token(strava_token).access_token,
             row |-> refresh_access_token(strava_token)]
       ELSE [access_token |-> <<>>, row |-> strava_token]
  ELSE [access_token |-> strava_token.access_token, row |-> strava_token]

\* the provider's activities: an id, a type tag and field values that differ
\* between two versions of the same activity
Versions == {1, 2}

activity_data(id, type, v) ==
  [id |-> id, type |-> type, name |-> <<"tur", v>>, distance |-> 1000 * v,
   start_date |-> v]

Items ==
  {activity_data(id, "Ride", 1) : id \in 1..NumActivityIds}
    \cup {activity_data(1, "Ride", v) : v \in Versions}
    \cup {activity_data(NumActivityIds, "VirtualRide", 1)}

ItemSeqs == UNION {[1..n -> Items] : n \in 0..MaxFeedItems}

\* a page of the listing: ok is FALSE when the provider did not answer 200;
\* size is the number of items returned, those beyond the listed ones being
\* items of another type than Ride, with ids of their own
FailedPage == [ok |-> FALSE, items |-> <<>>, size |-> 0]
EmptyPage == [ok |-> TRUE, items |-> <<>>, size |-> 0]
Page(items, full) ==
  [ok |-> TRUE, items |-> items, size |-> IF full THEN per_page ELSE Len(items)]

Endings == {"short", "full", "failed"}

\* the listed items a full page carries
PageCapacities == {1, MaxFeedItems}

\* the listing as the provider serves it to one sync run: the items s in
\* pages of per listed items, every page full except possibly the last
MakeFeed(s, per, ending) ==
  LET k == IF Len(s) = 0 THEN 1 ELSE (Len(s) + per - 1) \div per
      pages == [i \in 1..k |->
                  Page(SubSeq(s, (i - 1) * per + 1,
                              IF i = k THEN Len(s) ELSE i * per),
                       i < k \/ ending # "short")]
  IN IF ending = "failed" THEN Append(pages, FailedPage) ELSE pages

Feeds ==
  {MakeFeed(s, per, e) : s \in ItemSeqs, per \in PageCapacities, e \in Endings}

\* fetch_strava_activities for page number page; past the end of the listing
\* the provider returns an empty list
fetch_strava_activities(feed, page) ==
  IF page > Len(feed) THEN EmptyPage ELSE feed[page]

\* the records of the table that carry an id
RecordsOf(table, id) == {r \in table : r.strava_id = id}

\* StravaActivity.query.filter_by(strava_id=...)
find_activity(table, strava_id) == {r \in table : r.strava_id = strava_id}

StravaActivity(data, user_id) ==
  [strava_id |-> data.id,
   user_id |-> user_id,
   name |-> data.name,
   activity_type |-> data.type,
   distance_meters |-> data.distance,
   start_date |-> data.start_date,
   synced_at |-> now]

update_existing(existing, data) ==
  [existing EXCEPT !.name = data.name,
                   !.distance_meters = data.distance,
                   !.synced_at = now]

\* a count that goes up for updates as well
synced_count_for_every_ride(found, synced_count) == synced_count + 1

\* synced_count += 1 in the branch that creates a record
synced_count_after(found, synced_count) ==
  IF found THEN synced_count ELSE synced_count + 1

\* a loop body that stores activities of every type
ingest_item_of_any_type(acc, data, user_id) ==
  LET found == find_activity(acc.table, data.id) IN
  [table |-> IF found # {}
             THEN LET existing == CHOOSE r \in found : TRUE IN
                  (acc.table \ {existing}) \cup {update_existing(existing, data)}
             ELSE acc.table \cup {StravaActivity(data, user_id)},
   synced_count |-> synced_count_after(found # {}, acc.synced_count),
   requests |-> acc.requests]

\* the body of the loop over a page's items
ingest_item(acc, data, user_id) ==
  IF data.type # "Ride" THEN acc
  ELSE LET found == find_activity(acc.table, data.id) IN
       [table |-> IF found # {}
                  THEN LET existing == CHOOSE r \in found : TRUE IN
                       (acc.table \ {existing}) \cup {update_existing(existing, data)}
                  ELSE acc.table \cup {StravaActivity(data, user_id)},
        synced_count |-> synced_count_after(found # {}, acc.synced_count),
        requests |-> acc.requests]

RECURSIVE ingest(_, _, _)
ingest(acc, items, user_id) ==
  IF items = <<>> THEN acc
  ELSE ingest(ingest_item(acc, Head(items), user_id), Tail(items), user_id)

\* a loop that never asks for a further page
sync_loop_first_page_only(acc, feed, page, user_id) ==
  LET fetched == fetch_strava_activities(feed, page)
      asked == [acc EXCEPT !.requests = page]
  IN
  IF ~fetched.ok \/ fetched.size = 0 THEN asked
  ELSE ingest(asked, fetched.items, user_id)

\* a loop that gives up what it has done when a request fails
RECURSIVE sync_loop_all_or_nothing(_, _, _, _)
sync_loop_all_or_nothing(acc, feed, page, user_id) ==
  LET fetched == fetch_strava_activities(feed, page)
      asked == [acc EXCEPT !.requests = page]
  IN
  IF ~fetched.ok THEN [asked EXCEPT !.table = activities, !.synced_count = 0]
  ELSE IF fetched.size = 0 THEN asked
  ELSE IF fetched.size < per_page THEN ingest(asked, fetched.items, user_id)
  ELSE sync_loop_all_or_nothing(ingest(asked, fetched.items, user_id),
                                feed, page + 1, user_id)

\* the while loop of sync from page number page on
RECURSIVE sync_loop(_, _, _, _)
sync_loop(acc, feed, page, user_id) ==
  LET fetched == fetch_strava_activities(feed, page)
      asked == [acc EXCEPT !.requests = page]
  IN
  IF ~fetched.ok \/ fetched.size = 0 THEN asked
  ELSE IF fetched.size < per_page THEN ingest(asked, fetched.items, user_id)
  ELSE sync_loop(ingest(asked, fetched.items, user_id), feed, page + 1, user_id)

\* the after parameter of the listing request
after_timestamp(user_id) ==
  LET own == {r \in activities : r.user_id = user_id} IN
  IF own # {}
  THEN (CHOOSE r \in own : \A o \in own : o.start_date <= r.start_date).start_date
         - sync_overlap
  ELSE now - first_sync_window

\* the response of a sync run that reached the listing, with the access
\* token the listing was asked with and whether its last request was
\* answered with a list (fetched: what that request returned)
Synced(response, acc, after, access_token, fetched) ==
  [op |-> response.op, flash |-> response.flash, to |-> response.to,
   uid |-> response.uid, logged |-> response.logged, key |-> response.key,
   count |-> acc.synced_count, requests |-> acc.requests, after |-> after,
   access_token |-> access_token, listed |-> fetched.ok]

\* refreshed: whether the provider answers a refresh request with 200;
\* feed: the listing it serves
sync(actor, refreshed, feed) ==
  LET Back(msg, to) ==
        /\ last' = Response("sync", {msg}, to, actor, NULL)
        /\ UNCHANGED <<db, sessions, pending_ids, now, ticks, procs, outbox>>
  IN
  IF actor = NULL THEN LoginRequired("sync")
  ELSE IF LinksOfUser(actor) = {}
  THEN Back("Du maste forst koppla ditt Strava-konto.", "strava.connect")
  ELSE IF users[actor].state # ACTIVE
  THEN Back("Du maste ha ett aktivt konto for att synka aktiviteter.", "profile.view")
  ELSE LET strava_token == CHOOSE l \in LinksOfUser(actor) : TRUE
           valid == get_valid_token(strava_token, refreshed) IN
       IF valid.access_token = <<>>
       THEN Back("Kunde inte autentisera med Strava. Koppla om ditt konto.",
                 "strava.connect")
       ELSE LET acc == sync_loop([table |-> activities, synced_count |-> 0,
                                  requests |-> 0],
                                 feed, 1, actor)
            IN
            /\ links' = (links \ {strava_token}) \cup {valid.row}
            /\ activities' = acc.table
            /\ last' = Synced(Response("sync",
                                       {"nya aktiviteter synkade fran Strava!"},
                                       "profile.view", actor, NULL),
                              acc, after_timestamp(actor), valid.access_token,
                              fetch_strava_activities(feed, acc.requests))
            /\ UNCHANGED <<users, vtokens, ostates, joined, sessions,
                           pending_ids, now, ticks, procs, outbox>>

\* ------------------------------------------- requests that run concurrently
\*
\* The development server handles requests in threads, each with a database
\* session of its own.  Here a handler runs as a sequence of steps, one per
\* round trip to the database: a query reads what is committed at that moment,
\* a commit writes the session's changes and fails on a uniqueness violation.
\* Nothing in the application catches that failure, so it ends the request as
\* an internal server error with the session rolled back.  procs holds the
\* requests in flight and the finished ones, in order of arrival.

Running(p) == p \in DOMAIN procs /\ procs[p].pc # "done"

Error500(op, actor) == Response(op, {}, "500 Internal Server Error", actor, NULL)

\* the request p ends with a response
Finish(p, response) ==
  /\ procs' = [procs EXCEPT ![p].pc = "done", ![p].response = response]
  /\ last' = response

\* a request ends in the step that started it
Reject(proc, response) ==
  /\ procs' = Append(procs, [proc EXCEPT !.pc = "done", !.response = response])
  /\ last' = response

Request1(op, actor, key, code) ==
  [op |-> op, pc |-> "start", actor |-> actor, key |-> key, code |-> code,
   valid |-> FALSE, consumed |-> FALSE, unlinked |-> FALSE,
   response |-> NoRequest]

\* verify_email up to the validity check
verify_email_query(token) ==
  LET proc == Request1("verify_email", NULL, token, NULL) IN
  /\ Len(procs) < MaxProcs
  /\ IF token \notin DOMAIN vtokens
     THEN /\ Reject(proc, Keyed(Response("verify_email", {"Ogiltig verifieringslanke."},
                                         "auth.login", NULL, NULL), token))
          /\ UNCHANGED pending_ids
     ELSE IF ~is_valid(vtokens[token])
     THEN /\ Reject(proc, Keyed(Response("verify_email",
                                  {"Verifieringslanken har gatt ut. Begar en ny."},
                                  "auth.verification_sent", vtokens[token].user_id,
                                  NULL), token))
          /\ pending_ids' = pending_ids \cup {vtokens[token].user_id}
     ELSE /\ procs' = Append(procs, [proc EXCEPT !.pc = "commit", !.valid = TRUE])
          /\ UNCHANGED <<last, pending_ids>>
  /\ UNCHANGED <<db, sessions, now, ticks, outbox>>

\* verify_email from mark_used to the commit
verify_email_commit(p) ==
  /\ Running(p)
  /\ procs[p].op = "verify_email"
  /\ procs[p].pc = "commit"
  /\ LET token == procs[p].key
         user == vtokens[token].user_id IN
     /\ vtokens' = [vtokens EXCEPT ![token] = mark_used(@)]
     /\ users' = [users EXCEPT ![user].state = PENDING_APPROVAL,
                               ![user].email_verified_at = now]
     /\ procs' = [procs EXCEPT ![p].pc = "done", ![p].consumed = TRUE,
                    ![p].response =
                      Keyed(Response("verify_email",
                        {"E-postadress verifierad! Ditt konto vantar nu pa godkannande."},
                        "auth.pending_approval", user, NULL), token)]
     /\ last' = procs'[p].response
  /\ UNCHANGED <<ostates, links, activities, joined, sessions, pending_ids,
                 now, ticks, outbox>>

\* login_callback and callback up to the checks of validate_oauth_state
oauth_query(op, actor, req, purpose, back) ==
  LET proc == Request1(op, actor, req.state, req.code)
      Fail(msg) == Reject(proc, Keyed(Response(op, {msg}, back, actor, NULL),
                                      req.state))
  IN
  /\ Len(procs) < MaxProcs
  /\ IF req.error
     THEN Fail(IF op = "callback" THEN "Strava-koppling avbruten."
               ELSE "Strava-inloggning avbruten.")
     ELSE IF req.state = NULL THEN Fail("Saknar state-parameter.")
     ELSE IF req.state \notin DOMAIN ostates THEN Fail("Ogiltig state-parameter.")
     ELSE IF ~is_valid(ostates[req.state]) THEN Fail("State har gatt ut. Forsok igen.")
     ELSE IF ostates[req.state].purpose # purpose THEN Fail("Felaktig state-purpose.")
     ELSE /\ procs' = Append(procs, [proc EXCEPT !.pc = "mark_used",
                                                 !.valid = TRUE])
          /\ UNCHANGED last
  /\ UNCHANGED <<db, sessions, pending_ids, now, ticks, outbox>>

login_callback_query(req) ==
  oauth_query("login_callback", NULL, req, "login", "auth.login")

callback_query(actor, req) ==
  oauth_query("callback", actor, req, "connect", "profile.view")

\* validate_oauth_state: mark_used and commit
oauth_mark_used(p) ==
  /\ Running(p)
  /\ procs[p].pc = "mark_used"
  /\ ostates' = [ostates EXCEPT ![procs[p].key] = mark_used(@)]
  /\ procs' = [procs EXCEPT ![p].pc = "find_link", ![p].consumed = TRUE]
  /\ UNCHANGED <<users, vtokens, links, activities, joined, sessions,
                 pending_ids, now, ticks, last, outbox>>

\* login_callback from the code check to the query for the athlete's link
login_callback_find_link(p) ==
  LET proc == procs[p]
      athlete == proc.code
      existing == LinksOfAthlete(athlete)
      Fail(msg) == Finish(p, Keyed(Response("login_callback", {msg}, "auth.login",
                                            NULL, NULL), proc.key))
  IN
  /\ Running(p)
  /\ proc.op = "login_callback"
  /\ proc.pc = "find_link"
  /\ IF proc.code = NULL THEN Fail("Ingen auktoriseringskod fran Strava.")
     ELSE IF proc.code = 0 THEN Fail("Kunde inte ansluta till Strava. Forsok igen.")
     ELSE IF existing # {}
     THEN LET user == (CHOOSE l \in existing : TRUE).user_id IN
          IF callback_gate(user) = NULL
          THEN Finish(p, Keyed(Response("login_callback",
                                        {CallbackMessage(users[user].state)},
                                        CallbackTarget(users[user].state), user, NULL),
                               proc.key))
          ELSE /\ procs' = [procs EXCEPT ![p].pc = "update"]
               /\ UNCHANGED last
     ELSE /\ procs' = [procs EXCEPT ![p].pc = "create", ![p].unlinked = TRUE]
          /\ UNCHANGED last
  /\ UNCHANGED <<db, sessions, pending_ids, now, ticks, outbox>>

\* login_callback for a linked, active user: the new tokens are committed and
\* login_user is called
login_callback_update(p) ==
  LET proc == procs[p]
      token_data == exchange_code_for_token(proc.code)
      existing == LinksOfAthlete(proc.code)
  IN
  /\ Running(p)
  /\ proc.op = "login_callback"
  /\ proc.pc = "update"
  /\ existing # {}
  /\ LET existing_token == CHOOSE l \in existing : TRUE
         user == existing_token.user_id IN
     /\ links' = (links \ {existing_token})
                   \cup {update_tokens(existing_token, token_data)}
     /\ sessions' = sessions \cup {user}
     /\ Finish(p, Keyed(Response("login_callback", {CallbackMessage(ACTIVE)},
                                 CallbackTarget(ACTIVE), user, user), proc.key))
  /\ UNCHANGED <<users, vtokens, ostates, activities, joined, pending_ids, now,
                 ticks, outbox>>

\* the uniqueness constraints of users and strava_tokens
user_conflict(user) ==
  \E i \in UserIds : users[i].username = user.username \/ users[i].email = user.email

link_conflict(link) ==
  \E l \in links : l.user_id = link.user_id
                     \/ l.strava_athlete_id = link.strava_athlete_id

\* login_callback for an athlete it found unlinked: the user is added and
\* flushed, the link added, both committed together
login_callback_create(p) ==
  LET proc == procs[p]
      token_data == exchange_code_for_token(proc.code)
      id == Len(users) + 1
      user == NewUser(generate_username_from_strava(token_data.athlete),
                      strava_email(proc.code), random_password,
                      PENDING_APPROVAL, now)
      strava_token == StravaToken(id, proc.code, token_data)
  IN
  /\ Running(p)
  /\ proc.op = "login_callback"
  /\ proc.pc = "create"
  /\ IF user_conflict(user) \/ link_conflict(strava_token)
     THEN /\ Finish(p, Keyed(Error500("login_callback", NULL), proc.key))
          /\ UNCHANGED <<users, links, outbox>>
     ELSE /\ Len(users) < MaxUsers
          /\ users' = Append(users, user)
          /\ links' = links \cup {strava_token}
          /\ outbox' = outbox \cup {<<"pending_approval", id>>}
          /\ Finish(p, Keyed(Response("login_callback",
                               {"Konto skapat! Ditt konto vantar nu pa godkannande."},
                               "auth.pending_approval", id, NULL), proc.key))
  /\ UNCHANGED <<vtokens, ostates, activities, joined, sessions, pending_ids,
                 now, ticks>>

\* callback from the owner check to the query for the athlete's link
callback_find_link(p) ==
  LET proc == procs[p]
      actor == proc.actor
      Fail(msg) == Finish(p, Keyed(Response("callback", {msg}, "profile.view",
                                            actor, NULL), proc.key))
  IN
  /\ Running(p)
  /\ proc.op = "callback"
  /\ proc.pc = "find_link"
  /\ IF ostates[proc.key].user_id # actor
     THEN Fail("Ogiltig state for denna anvandare.")
     ELSE IF proc.code = NULL THEN Fail("Ingen auktoriseringskod fran Strava.")
     ELSE IF proc.code = 0 THEN Fail("Kunde inte koppla till Strava. Forsok igen.")
     ELSE IF linked_to_another(proc.code, actor)
     THEN Fail("Detta Strava-konto ar redan kopplat till en annan anvandare.")
     ELSE /\ procs' = [procs EXCEPT
                         ![p].pc = IF LinksOfUser(actor) # {} THEN "update"
                                   ELSE "create",
                         ![p].unlinked = LinksOfAthlete(proc.code) = {}]
          /\ UNCHANGED last
  /\ UNCHANGED <<db, sessions, pending_ids, now, ticks, outbox>>

\* callback: the link is created, or the caller's link updated, and committed
callback_write(p) ==
  LET proc == procs[p]
      actor == proc.actor
      token_data == exchange_code_for_token(proc.code)
      strava_token == StravaToken(actor, proc.code, token_data)
      ok == Keyed(Response("callback",
                           {"Strava-konto kopplat! Synkar aktiviteter..."},
                           "strava.sync", actor, NULL), proc.key)
  IN
  /\ Running(p)
  /\ proc.op = "callback"
  /\ proc.pc \in {"update", "create"}
  /\ IF proc.pc = "update"
     THEN /\ links' = {IF l.user_id = actor THEN update_tokens(l, token_data) ELSE l :
                         l \in links}
          /\ Finish(p, ok)
     ELSE IF link_conflict(strava_token)
     THEN /\ Finish(p, Keyed(Error500("callback", actor), proc.key))
          /\ UNCHANGED links
     ELSE /\ links' = links \cup {strava_token}
          /\ Finish(p, ok)
  /\ UNCHANGED <<users, vtokens, ostates, activities, joined, sessions,
                 pending_ids, now, ticks, outbox>>

\* sync up to the first request for a page
sync_start(actor, feed) ==
  LET proc == [op |-> "sync", pc |-> "fetch", actor |-> actor, feed |-> feed,
               page |-> 0, size |-> 0, items |-> <<>>, pending |-> {},
               dirty |-> {}, inserted |-> {}, synced_count |-> 0,
               after |-> after_timestamp(actor), response |-> NoRequest]
      Back(msg, to) == Reject(proc, Response("sync", {msg}, to, actor, NULL))
  IN
  /\ Len(procs) < MaxProcs
  /\ actor # NULL
  /\ IF LinksOfUser(actor) = {}
     THEN Back("Du maste forst koppla ditt Strava-konto.", "strava.connect")
     ELSE IF users[actor].state # ACTIVE
     THEN Back("Du maste ha ett aktivt konto for att synka aktiviteter.",
               "profile.view")
     ELSE /\ ~is_expired(CHOOSE l \in LinksOfUser(actor) : TRUE)
          /\ procs' = Append(procs, proc)
          /\ UNCHANGED last
  /\ UNCHANGED <<db, sessions, pending_ids, now, ticks, outbox>>

\* the next page is requested once the items of the last one are done
sync_fetch(p) ==
  LET proc == procs[p]
      fetched == fetch_strava_activities(proc.feed, proc.page + 1)
  IN
  /\ Running(p)
  /\ proc.op = "sync"
  /\ proc.pc = "fetch"
  /\ procs' = [procs EXCEPT
                 ![p].page = proc.page + 1,
                 ![p].size = fetched.size,
                 ![p].items = fetched.items,
                 ![p].pc = IF ~fetched.ok \/ fetched.size = 0 THEN "commit"
                           ELSE "items"]
  /\ UNCHANGED <<db, sessions, pending_ids, now, ticks, last, outbox>>

\* what a query of the session sees: the committed rows, with the session's
\* own updates and its flushed inserts
table_seen(proc) ==
  {r \in activities : \A d \in proc.dirty : d.strava_id # r.strava_id}
    \cup proc.dirty \cup proc.pending

\* an insert the session flushes meets a committed row with the same strava_id
activity_conflict(proc) ==
  \E r \in proc.pending : RecordsOf(activities, r.strava_id) # {}

\* the loop body for the next item of the page: the query flushes the
\* session first
sync_item(p) ==
  LET proc == procs[p]
      data == Head(proc.items)
      found == find_activity(table_seen(proc), data.id)
      acc == ingest_item([table |-> table_seen(proc),
                          synced_count |-> proc.synced_count,
                          requests |-> proc.page],
                         data, proc.actor)
      pending_ids_ == {r.strava_id : r \in proc.pending}
                        \cup (IF data.type = "Ride" /\ found = {} THEN {data.id} ELSE {})
      dirty_ids == {r.strava_id : r \in proc.dirty}
                     \cup (IF data.type = "Ride" /\ found # {}
                              /\ data.id \notin pending_ids_
                           THEN {data.id} ELSE {})
  IN
  /\ Running(p)
  /\ proc.op = "sync"
  /\ proc.pc = "items"
  /\ IF proc.items = <<>>
     THEN /\ procs' = [procs EXCEPT ![p].pc = IF proc.size < per_page THEN "commit"
                                               ELSE "fetch"]
          /\ UNCHANGED last
     ELSE IF data.type = "Ride" /\ activity_conflict(proc)
     THEN Finish(p, Error500("sync", proc.actor))
     ELSE /\ procs' = [procs EXCEPT
                         ![p].items = Tail(proc.items),
                         ![p].pending = {r \in acc.table : r.strava_id \in pending_ids_},
                         ![p].dirty = {r \in acc.table : r.strava_id \in dirty_ids},
                         ![p].inserted = pending_ids_,
                         ![p].synced_count = acc.synced_count]
          /\ UNCHANGED last
  /\ UNCHANGED <<db, sessions, pending_ids, now, ticks, outbox>>

\* db.session.commit() after the loop
sync_commit(p) ==
  LET proc == procs[p] IN
  /\ Running(p)
  /\ proc.op = "sync"
  /\ proc.pc = "commit"
  /\ IF activity_conflict(proc)
     THEN /\ Finish(p, Error500("sync", proc.actor))
          /\ UNCHANGED activities
     ELSE /\ activities' = table_seen(proc)
          /\ Finish(p, Synced(Response("sync",
                                       {"nya aktiviteter synkade fran Strava!"},
                                       "profile.view", proc.actor, NULL),
                              [synced_count |-> proc.synced_count,
                               requests |-> proc.page],
                              proc.after,
                              (CHOOSE l \in LinksOfUser(proc.actor) : TRUE)
                                .access_token,
                              fetch_strava_activities(proc.feed, proc.page)))
  /\ UNCHANGED <<users, vtokens, ostates, links, joined, sessions, pending_ids,
                 now, ticks, outbox>>

\* ----------------------------------------------------------------- time

\* the clock advances between requests, by the lifetime of an OAuth state or
\* of a verification token
TickSteps == {expiry_minutes, expiry_hours * MinutesPerHour}

Tick(d) ==
  /\ ticks < MaxTicks
  /\ now' = now + d
  /\ ticks' = ticks + 1
  /\ UNCHANGED <<db, sessions, pending_ids, last, procs, outbox>>

\* ----------------------------------- blueprints/admin.py: the members

\* the role of a member after members_edit when every member of staff may
\* set it
role_after_edit_by_any_staff(actor, member, form) ==
  IF form.role \in UserRole THEN form.role ELSE member.role

\* "Only admins can change roles": the role of the member after the form is
\* applied
role_after_edit(actor, member, form) ==
  IF is_admin_role(users[actor]) /\ form.role \in UserRole
  THEN form.role ELSE member.role

\* members_edit, a POST of the form: the e-mail address as typed, the role,
\* the password when one is given; the commit fails on an address another
\* row holds (users.email is unique)
members_edit(actor, id, form) ==
  IF admin_required(actor) # "pass" THEN Refused("members_edit", actor)
  ELSE IF id \notin UserIds THEN NotFound("members_edit")
  ELSE IF \E u \in UserIds \ {id} : users[u].email = form.email
  THEN /\ last' = Error500("members_edit", actor)
       /\ UNCHANGED <<db, sessions, pending_ids, now, ticks, procs, outbox>>
  ELSE /\ users' =
            [users EXCEPT
               ![id].email = form.email,
               ![id].role = role_after_edit(actor, users[id], form),
               ![id].password_hash =
                  IF form.new_password # <<>>
                  THEN generate_password_hash(form.new_password) ELSE @]
       /\ last' = Response("members_edit", {"Medlemmen har uppdaterats!"},
                           "admin.members_list", id, NULL)
       /\ UNCHANGED <<vtokens, ostates, links, activities, joined, sessions,
                      pending_ids, now, ticks, procs, outbox>>

\* the rows whose user_id is not nullable and that the session would have to
\* detach from the member: verification tokens, the link, synced activities
\* and the feed entries (the one written on approval)
has_dependents(id) ==
  \/ \E t \in DOMAIN vtokens : vtokens[t].user_id = id
  \/ LinksOfUser(id) # {}
  \/ \E r \in activities : r.user_id = id
  \/ joined[id] > 0

\* the checks members_delete makes before it deletes: the message it refuses
\* with, or {} when it goes ahead
delete_refusal(actor, id) ==
  IF id = actor THEN {"Du kan inte ta bort dig sjalv!"}
  ELSE IF is_admin_role(users[id]) /\ ~is_admin_role(users[actor])
  THEN {"Du kan inte ta bort en administrator."}
  ELSE {}

\* members_delete: db.session.delete(member) sets the user_id of the member's
\* rows to NULL (no relationship cascades), so the commit fails while a row
\* with a non-nullable user_id exists; the flow states of the member lose
\* their owner; the session of a deleted member loads no user any more
members_delete(actor, id) ==
  IF admin_required(actor) # "pass" THEN Refused("members_delete", actor)
  ELSE IF id # actor /\ id \notin UserIds THEN NotFound("members_delete")
  ELSE IF delete_refusal(actor, id) # {}
  THEN /\ last' = Response("members_delete", delete_refusal(actor, id),
                           "admin.members_list", id, NULL)
       /\ UNCHANGED <<db, sessions, pending_ids, now, ticks, procs, outbox>>
  ELSE IF has_dependents(id)
  THEN /\ last' = Error500("members_delete", actor)
       /\ UNCHANGED <<db, sessions, pending_ids, now, ticks, procs, outbox>>
  ELSE /\ users' = [users EXCEPT ![id] = Deleted]
       /\ ostates' = [k \in DOMAIN ostates |->
                        IF ostates[k].user_id = id
                        THEN [ostates[k] EXCEPT !.user_id = NULL]
                        ELSE ostates[k]]
       /\ sessions' = sessions \ {id}
       /\ last' = Response("members_delete", {"Medlemmen har tagits bort!"},
                           "admin.members_list", id, NULL)
       /\ UNCHANGED <<vtokens, links, activities, joined, pending_ids, now,
                      ticks, procs, outbox>>

\* ------------------------------------------------------- the requests

SignupForms ==
  {[username |-> <<" ", "A", "l", "i", "c", "e">>, email |-> mail_a,
    password |-> pw_good, confirm_password |-> pw_good],
   [username |-> ab, email |-> mail_b, password |-> pw_short,
    confirm_password |-> pw_good]}

LoginForms ==
  {[username |-> klubban, password |-> pw_admin],
   [username |-> alice, password |-> pw_good],
   [username |-> mail_a, password |-> pw_other]}

Reasons == {<<>>, <<"r">>}

\* callbacks as the provider redirects to them: a state string and the code
\* of the athlete who authorised
CallbackRequests ==
  {[error |-> FALSE, state |-> s, code |-> c] : s \in 1..MaxOAuth, c \in Athletes}

\* ------------------------------------------------- the account lifecycle

Next ==
  \/ \E f \in LoginForms : login(NULL, f.username, f.password)
  \/ \E f \in SignupForms : signup(NULL, f)
  \/ \E t \in 0..MaxTokens : verify_email(t)
  \/ \E sid \in pending_ids : resend_verification(sid, <<>>)
  \/ \E a \in sessions, id \in UserIds : approve_user(a, id)
  \/ \E a \in sessions, id \in UserIds, r \in Reasons : reject_user(a, id, r)
  \/ \E a \in sessions, id \in UserIds, r \in Reasons : members_suspend(a, id, r)
  \/ \E a \in sessions, id \in UserIds : members_reactivate(a, id)
  \/ \E d \in TickSteps : Tick(d)

Spec == Init /\ [][Next]_vars

\* ---------------------------------------- the administrator's decisions

NextAdmin ==
  \/ \E f \in LoginForms : login(NULL, f.username, f.password)
  \/ \E f \in SignupForms : signup(NULL, f)
  \/ \E t \in 1..MaxTokens : verify_email(t)
  \/ \E a \in sessions, id \in UserIds : approve_user(a, id)
  \/ \E a \in sessions, id \in UserIds, r \in Reasons : reject_user(a, id, r)
  \/ \E a \in sessions, id \in UserIds, r \in Reasons : members_suspend(a, id, r)
  \/ \E a \in sessions, id \in UserIds : members_reactivate(a, id)
  \/ \E d \in TickSteps : Tick(d)

SpecAdmin == Init /\ [][NextAdmin]_vars

\* ----------------------------------------------------- the signup form

\* signup forms as visitors post them: two that pass every validation (one
\* typed with a leading blank and a capital, one with a capital and a
\* trailing blank in the address), one for each validation alone that fails,
\* and one that fails several
SignupRequests ==
  LET Form(username, email, password, confirm_password) ==
        [username |-> username, email |-> email, password |-> password,
         confirm_password |-> confirm_password]
  IN {Form(<<" ", "A", "l", "i", "c", "e">>, mail_a, pw_good, pw_good),
      Form(bob, <<"B", "@", "x", " ">>, pw_other, pw_other),
      Form(ab, mail_b, pw_good, pw_good),
      Form(bob, <<"b", "x">>, pw_good, pw_good),
      Form(bob, <<" ">>, pw_good, pw_good),
      Form(bob, mail_b, pw_short, pw_short),
      Form(bob, mail_b, pw_good, pw_other),
      Form(klubban, mail_b, pw_good, pw_good),
      Form(bob, mail_klubban, pw_good, pw_good),
      Form(ab, mail_b, pw_short, pw_good)}

NextSignup ==
  \/ login(NULL, klubban, pw_admin)
  \/ \E b \in sessions \cup {NULL}, f \in SignupRequests : signup(b, f)
  \/ \E t \in 1..MaxTokens : verify_email(t)
  \/ \E d \in TickSteps : Tick(d)

SpecSignup == Init /\ [][NextSignup]_vars

\* ------------------------------------------- usernames for new athletes

\* the athlete records the provider returns: both names, a first name of two
\* letters only, and no first name
AthleteRecords ==
  {Profile(a) : a \in Athletes}
    \cup {[id |-> 10, firstname |-> <<"A", "L">>, lastname |-> <<>>],
          [id |-> 11, firstname |-> <<>>, lastname |-> <<"X">>]}

\* the users table after the administrator was made and up to MaxTaken
\* members signed up, under usernames the athletes' names can run into
UserTables ==
  LET TakenNames ==
        {bob, bob \o Digits(1), bob \o Digits(2),
         <<"u", "s", "e", "r", "a", "l">>,
         <<"u", "s", "e", "r", "a", "l">> \o Digits(1),
         <<"s", "t", "r", "a", "v", "a">> \o Digits(11)}
  IN
  {<<AdminUser>>
     \o [i \in DOMAIN s |-> NewUser(s[i], s[i] \o <<"@", "x">>, pw_good,
                                     PENDING_EMAIL_VERIFICATION, NULL)] :
     s \in UNION {{t \in [1..n -> TakenNames] :
                     \A i \in 1..n, j \in 1..n : i # j => t[i] # t[j]} :
                  n \in 0..MaxTaken}}

InitUsernames ==
  /\ users \in UserTables
  /\ vtokens = <<>>
  /\ ostates = <<>>
  /\ links = {}
  /\ activities = {}
  /\ joined = [i \in 1..MaxUsers |-> 0]
  /\ sessions = {}
  /\ pending_ids = {}
  /\ now = 0
  /\ ticks = 0
  /\ last = NoRequest
  /\ procs = <<>>
  /\ outbox = {}

\* a call of generate_username_from_strava with the athlete record; the
\* response holds the record and the username returned
call_generate_username(athlete) ==
  /\ last' = [op |-> "generate_username_from_strava", flash |-> {}, to |-> "none",
              uid |-> NULL, logged |-> NULL, key |-> NULL,
              athlete |-> athlete,
              username |-> generate_username_from_strava(athlete)]
  /\ UNCHANGED <<db, sessions, pending_ids, now, ticks, procs, outbox>>

NextUsernames == \E athlete \in AthleteRecords : call_generate_username(athlete)

SpecUsernames == InitUsernames /\ [][NextUsernames]_vars

\* ------------------------------------- tokens and flow states, both kinds

\* tokens and flow states issued so far
Issued == Len(vtokens) + Len(ostates)

NextTokens ==
  \/ login(NULL, klubban, pw_admin)
  \/ \E f \in SignupForms : Issued < MaxIssued /\ signup(NULL, f)
  \/ \E t \in 0..MaxTokens : verify_email(t)
  \/ \E sid \in pending_ids : Issued < MaxIssued /\ resend_verification(sid, <<>>)
  \/ Issued < MaxIssued /\ strava_login(NULL)
  \/ \E r \in CallbackRequests : login_callback(r)
  \/ \E a \in sessions : Issued < MaxIssued /\ connect(a)
  \/ \E a \in sessions, r \in CallbackRequests : callback(a, r)
  \/ \E d \in TickSteps : Tick(d)

SpecTokens == Init /\ [][NextTokens]_vars

\* ------------------------------------------------ both ways of logging in

NextLogin ==
  \/ \E f \in LoginForms : login(NULL, f.username, f.password)
  \/ \E f \in SignupForms : signup(NULL, f)
  \/ \E t \in 1..MaxTokens : verify_email(t)
  \/ strava_login(NULL)
  \/ \E r \in CallbackRequests : login_callback(r)
  \/ \E a \in sessions, id \in UserIds : approve_user(a, id)
  \/ \E a \in sessions, id \in UserIds : reject_user(a, id, <<>>)
  \/ \E a \in sessions, id \in UserIds : members_suspend(a, id, <<>>)
  \/ \E a \in sessions, id \in UserIds : members_reactivate(a, id)

SpecLogin == Init /\ [][NextLogin]_vars

\* ------------------------------------------------------ linking athletes

NextLinks ==
  \/ login(NULL, klubban, pw_admin)
  \/ strava_login(NULL)
  \/ \E r \in CallbackRequests : login_callback(r)
  \/ \E a \in sessions : connect(a)
  \/ \E a \in sessions, r \in CallbackRequests : callback(a, r)
  \/ \E a \in sessions : disconnect(a)
  \/ \E a \in sessions, id \in UserIds : approve_user(a, id)
  \/ \E a \in sessions, id \in UserIds : reject_user(a, id, <<>>)
  \/ \E a \in sessions, id \in UserIds : members_suspend(a, id, <<>>)

SpecLinks == Init /\ [][NextLinks]_vars

\* the flow states not consumed yet
Outstanding == {k \in DOMAIN ostates : ostates[k].used_at = NULL}

\* ------------------------------------------------- managing the members

\* A member signs up, is verified and approved, and the administrator edits,
\* suspends, reactivates and deletes members; a member made Moderator or
\* Admin does the same.  The edit form carries the member's own address with
\* each role (one of them not a role), a new address with a new password, or
\* the administrator's address and no role.
\* the form with the member's own address, no new password and each role,
\* one of them not a role
RoleForms(id) ==
  {[email |-> users[id].email, role |-> r, new_password |-> <<>>] :
     r \in UserRole \cup {"owner"}}

\* and with a new address and a new password, or the administrator's address
\* and no role
EditForms(id) ==
  RoleForms(id)
  \cup {[email |-> mail_b, role |-> users[id].role, new_password |-> pw_other],
        [email |-> mail_klubban, role |-> "", new_password |-> <<>>]}

NextMembers ==
  \/ \E f \in LoginForms : login(NULL, f.username, f.password)
  \/ \E f \in SignupForms : signup(NULL, f)
  \/ \E t \in 1..MaxTokens : verify_email(t)
  \/ \E a \in sessions, id \in UserIds : approve_user(a, id)
  \/ \E a \in sessions, id \in UserIds : \E f \in EditForms(id) :
        members_edit(a, id, f)
  \/ \E a \in sessions, id \in UserIds : members_suspend(a, id, <<>>)
  \/ \E a \in sessions, id \in UserIds : members_reactivate(a, id)
  \/ \E a \in sessions, id \in UserIds : members_delete(a, id)

SpecMembers == Init /\ [][NextMembers]_vars

\* ------------------------------------------------ who gives out the roles

\* Members come in through the signup form or through one login at the
\* provider and pass through their states while the administrator edits the
\* roles, the administrator's own included: after that the session belongs
\* to a Moderator or a User.
NextRoles ==
  \/ login(NULL, klubban, pw_admin)
  \/ \E f \in SignupForms : signup(NULL, f)
  \/ \E t \in 1..MaxTokens : verify_email(t)
  \/ ostates = <<>> /\ strava_login(NULL)
  \/ \E r \in CallbackRequests : login_callback(r)
  \/ \E a \in sessions, id \in UserIds : approve_user(a, id)
  \/ \E a \in sessions, id \in UserIds : reject_user(a, id, <<>>)
  \/ \E a \in sessions, id \in UserIds : members_suspend(a, id, <<>>)
  \/ \E a \in sessions, id \in UserIds : members_reactivate(a, id)
  \/ \E a \in sessions, id \in UserIds : \E f \in RoleForms(id) :
        members_edit(a, id, f)

SpecRoles == Init /\ [][NextRoles]_vars

\* ------------------------------------- connecting as an ordinary member

NextConnect ==
  \/ \E f \in LoginForms : login(NULL, f.username, f.password)
  \/ \E f \in SignupForms : signup(NULL, f)
  \/ \E t \in 1..MaxTokens : verify_email(t)
  \/ \E a \in sessions, id \in UserIds : approve_user(a, id)
  \/ \E a \in sessions, id \in UserIds : members_suspend(a, id, <<>>)
  \/ \E a \in sessions : connect(a)
  \/ \E a \in sessions, r \in CallbackRequests : callback(a, r)

SpecConnect == Init /\ [][NextConnect]_vars

\* ------------------------------------------------------ syncing activities

\* a connect flow is started only while none is outstanding
NextSync ==
  \/ login(NULL, klubban, pw_admin)
  \/ \E a \in sessions : Outstanding = {} /\ connect(a)
  \/ \E a \in sessions, r \in CallbackRequests : callback(a, r)
  \/ \E a \in sessions, f \in Feeds : sync(a, TRUE, f)
  \/ \E a \in sessions : disconnect(a)

SpecSync == Init /\ [][NextSync]_vars

\* ------------------------------------------- whose activities are stored

\* Two members and their athletes: the administrator connects, a second
\* member comes in through the provider and is approved.  The provider lists
\* the activities of the athlete the access token was issued for; athlete n
\* has one ride, with id n, in either of its versions.
NextOwners ==
  LET ListingFor(a) ==
        IF LinksOfUser(a) = {} THEN {<<EmptyPage>>}
        ELSE LET athlete == (CHOOSE l \in LinksOfUser(a) : TRUE).access_token[2]
             IN {<<Page(<<activity_data(athlete, "Ride", v)>>, FALSE)>> :
                   v \in Versions}
  IN
  \/ login(NULL, klubban, pw_admin)
  \/ strava_login(NULL)
  \/ \E r \in CallbackRequests : login_callback(r)
  \/ \E a \in sessions, id \in UserIds : approve_user(a, id)
  \/ \E a \in sessions : connect(a)
  \/ \E a \in sessions, r \in CallbackRequests : callback(a, r)
  \/ \E a \in sessions : \E f \in ListingFor(a) : sync(a, TRUE, f)
  \/ \E a \in sessions : disconnect(a)

SpecOwners == Init /\ [][NextOwners]_vars

\* --------------------------------------- what the provider answers a sync

\* listings as the provider serves them: fewer than MaxPages full pages,
\* then a short page (a ride and a virtual ride), an empty page, a request
\* that fails or one more full page, after which the listing is at its end
PagedFeeds ==
  LET full == Page(<<activity_data(1, "Ride", 1)>>, TRUE)
      short == Page(<<activity_data(NumActivityIds, "Ride", 1),
                      activity_data(1, "VirtualRide", 2)>>, FALSE)
  IN {[i \in 1..n |-> full] \o <<e>> :
        n \in 0..(MaxPages - 1), e \in {short, EmptyPage, FailedPage, full}}

\* the clock moves to the last minute the access token passes the check, or
\* to the minute after
NextProvider ==
  \/ login(NULL, klubban, pw_admin)
  \/ \E a \in sessions : Outstanding = {} /\ connect(a)
  \/ \E a \in sessions, r \in CallbackRequests : callback(a, r)
  \/ \E d \in {ProviderTTL - refresh_buffer, ProviderTTL - refresh_buffer + 1} :
        Tick(d)
  \/ \E a \in sessions, refreshed \in BOOLEAN, f \in PagedFeeds :
        sync(a, refreshed, f)

SpecProvider == Init /\ [][NextProvider]_vars

\* ---------------------------------- two requests with one token or state

NextRaceTokens ==
  \/ \E f \in SignupForms : signup(NULL, f)
  \/ strava_login(NULL)
  \/ \E t \in 0..MaxTokens : verify_email_query(t)
  \/ \E p \in DOMAIN procs : verify_email_commit(p)
  \/ \E r \in CallbackRequests : login_callback_query(r)
  \/ \E p \in DOMAIN procs : oauth_mark_used(p)
  \/ \E p \in DOMAIN procs : login_callback_find_link(p)
  \/ \E p \in DOMAIN procs : login_callback_update(p)
  \/ \E p \in DOMAIN procs : login_callback_create(p)
  \/ \E a \in sessions, id \in UserIds : approve_user(a, id)
  \/ login(NULL, klubban, pw_admin)

SpecRaceTokens == Init /\ [][NextRaceTokens]_vars

\* ------------------------------------------ two callbacks with one athlete

NextRaceLinks ==
  \/ login(NULL, klubban, pw_admin)
  \/ strava_login(NULL)
  \/ \E a \in sessions : connect(a)
  \/ \E r \in CallbackRequests : login_callback_query(r)
  \/ \E a \in sessions, r \in CallbackRequests : callback_query(a, r)
  \/ \E p \in DOMAIN procs : oauth_mark_used(p)
  \/ \E p \in DOMAIN procs : login_callback_find_link(p)
  \/ \E p \in DOMAIN procs : login_callback_update(p)
  \/ \E p \in DOMAIN procs : login_callback_create(p)
  \/ \E p \in DOMAIN procs : callback_find_link(p)
  \/ \E p \in DOMAIN procs : callback_write(p)
  \/ \E a \in sessions, id \in UserIds : approve_user(a, id)

SpecRaceLinks == Init /\ [][NextRaceLinks]_vars

\* ------------------------------------------------ two sync runs of a user

\* listings of a single short page of first versions of rides
RaceFeeds ==
  {f \in Feeds : /\ Len(f) = 1
                 /\ f[1].ok
                 /\ f[1].size = Len(f[1].items)
                 /\ \A i \in DOMAIN f[1].items :
                      f[1].items[i].type = "Ride" /\ f[1].items[i].start_date = 1}

NextRaceSync ==
  \/ login(NULL, klubban, pw_admin)
  \/ \E a \in sessions : connect(a)
  \/ \E a \in sessions, r \in CallbackRequests : callback(a, r)
  \/ \E a \in sessions, f \in RaceFeeds : sync_start(a, f)
  \/ \E p \in DOMAIN procs : sync_fetch(p)
  \/ \E p \in DOMAIN procs : sync_item(p)
  \/ \E p \in DOMAIN procs : sync_commit(p)

SpecRaceSync == Init /\ [][NextRaceSync]_vars

\* ================================================================ claims

\* a step that handles a request (the clock does not move)
Request == ticks' = ticks

ExpiredLink == "Verifieringslanken har gatt ut. Begar en ny."
ExpiredState == "State har gatt ut. Forsok igen."

LegalEdges ==
  {<<PENDING_EMAIL_VERIFICATION, PENDING_APPROVAL>>,
   <<PENDING_APPROVAL, ACTIVE>>,
   <<PENDING_APPROVAL, REJECTED>>,
   <<ACTIVE, SUSPENDED>>,
   <<SUSPENDED, ACTIVE>>,
   <<REJECTED, ACTIVE>>}

\* C3: every change of a user's state is a legal edge of the lifecycle, and
\* only members_reactivate takes a user out of Rejected.
C3_LegalTransitions ==
  [][\A u \in DOMAIN users :
        users'[u].state # users[u].state
          => /\ <<users[u].state, users'[u].state>> \in LegalEdges
             /\ users[u].state = REJECTED => last'.op = "members_reactivate"
    ]_vars

\* C4: login_user is called, and a session created, only for a user whose
\* state is Active at that moment, in password login and in the OAuth login
\* callback alike.
C4_SessionOnlyForActive ==
  [][/\ \A u \in sessions' \ sessions :
          u \in DOMAIN users /\ users[u].state = ACTIVE /\ last'.logged = u
     /\ (Request /\ last'.logged # NULL)
          => /\ last'.op \in {"login", "login_callback"}
             /\ users[last'.logged].state = ACTIVE
    ]_vars

\* C4 witness: the OAuth login callback met a linked user who is Suspended
\* and created no session, while another login did create one
C4_Witness ==
  /\ last.op = "login_callback"
  /\ last.uid # NULL
  /\ users[last.uid].state = SUSPENDED
  /\ last.logged = NULL
  /\ last.uid \notin sessions
  /\ sessions # {}

\* C5: each athlete id is held by at most one link and each user owns at
\* most one link.
C5_OneLinkPerAthleteAndUser ==
  \A l1 \in links, l2 \in links :
     (l1.strava_athlete_id = l2.strava_athlete_id \/ l1.user_id = l2.user_id)
       => l1 = l2

\* C5 witness: a connect callback for an athlete that is linked to another
\* user has just been refused, and the caller holds no link
C5_Witness ==
  /\ \E l \in links : l.user_id # last.uid
  /\ LinksOfUser(last.uid) = {}
  /\ last.op = "callback"
  /\ last.flash = {"Detta Strava-konto ar redan kopplat till en annan anvandare."}

\* C7: ingesting an activity id again through sync, with the same or with
\* changed values, in the same run or in a later one, leaves exactly one
\* record for the id, keeps the record it found (owner and start date) and
\* does not count it: the count a run reports is the number of ids that had
\* no record before the run and have one after it.
C7_ReingestUpdatesInPlace ==
  [][(Request /\ last'.op = "sync" /\ "count" \in DOMAIN last')
       => /\ \A id \in 1..NumActivityIds :
               Cardinality(RecordsOf(activities', id)) <= 1
          /\ \A r \in activities :
               \E r2 \in activities' : /\ r2.strava_id = r.strava_id
                                       /\ r2.user_id = r.user_id
                                       /\ r2.start_date = r.start_date
          /\ last'.count =
               Cardinality({id \in 1..NumActivityIds :
                              /\ RecordsOf(activities, id) = {}
                              /\ RecordsOf(activities', id) # {}})
    ]_vars

\* C7 witness: a run that asked for a page counted nothing, and the record of
\* activity 1 carries the name of the second version with the start date of
\* the first
C7_Witness ==
  /\ last.op = "sync"
  /\ "count" \in DOMAIN last
  /\ last.count = 0
  /\ last.requests > 0
  /\ \E r \in activities : /\ r.strava_id = 1
                           /\ r.name = activity_data(1, "Ride", 2).name
                           /\ r.start_date = activity_data(1, "Ride", 1).start_date

Done(p) == p \in DOMAIN procs /\ procs[p].pc = "done"

Consumers == {"verify_email", "login_callback", "callback"}

\* C2: of two requests that consume the same valid token or flow state
\* concurrently (each read it and found it valid), exactly one succeeds and
\* the other gets the failure of a token already used.
C2_OneConsumerWins ==
  \A p \in DOMAIN procs, q \in DOMAIN procs :
     (/\ p < q
      /\ Done(p) /\ Done(q)
      /\ procs[p].op \in Consumers /\ procs[q].op \in Consumers
      /\ (procs[p].op = "verify_email") = (procs[q].op = "verify_email")
      /\ procs[p].key = procs[q].key
      /\ procs[p].valid /\ procs[q].valid)
     => \E w \in {p, q} : \E l \in {p, q} \ {w} :
           /\ procs[w].consumed
           /\ ~procs[l].consumed
           /\ procs[l].response.flash \in {{ExpiredLink}, {ExpiredState}}

\* C6: of two concurrent callbacks that present the same athlete, not linked
\* when either looked, exactly one link for the athlete results, neither
\* request ends in an unhandled error and no user is left without a link.
C6_OneLinkWins ==
  \A p \in DOMAIN procs, q \in DOMAIN procs :
     (/\ p < q
      /\ Done(p) /\ Done(q)
      /\ procs[p].op \in {"login_callback", "callback"}
      /\ procs[q].op \in {"login_callback", "callback"}
      /\ procs[p].code = procs[q].code
      /\ procs[p].unlinked /\ procs[q].unlinked)
     => /\ Cardinality(LinksOfAthlete(procs[p].code)) = 1
        /\ procs[p].response.to # "500 Internal Server Error"
        /\ procs[q].response.to # "500 Internal Server Error"
        /\ \A u \in UserIds :
             users[u].email = strava_email(procs[p].code) => LinksOfUser(u) # {}

\* C8: of two concurrent sync runs of one user that both meet the same new
\* activity id, exactly one record of the id exists afterwards and neither
\* run ends in an unhandled error.
C8_OneRecordNoError ==
  \A p \in DOMAIN procs, q \in DOMAIN procs :
     (/\ p < q
      /\ Done(p) /\ Done(q)
      /\ procs[p].op = "sync" /\ procs[q].op = "sync"
      /\ procs[p].actor = procs[q].actor
      /\ "inserted" \in DOMAIN procs[p] /\ "inserted" \in DOMAIN procs[q])
     => \A id \in procs[p].inserted \cap procs[q].inserted :
           /\ Cardinality(RecordsOf(activities, id)) = 1
           /\ procs[p].response.to # "500 Internal Server Error"
           /\ procs[q].response.to # "500 Internal Server Error"

\* C9: members_suspend moves a user to Suspended only from Active; applied
\* to a user in any other state it leaves state and suspendedReason unchanged.
C9_SuspendOnlyFromActive ==
  [][(Request /\ last'.op = "members_suspend")
       => \A u \in DOMAIN users :
            users[u].state # ACTIVE
              => /\ users'[u].state = users[u].state
                 /\ users'[u].suspended_reason = users[u].suspended_reason
    ]_vars

\* C10: consuming a verification token changes its owner's state only from
\* PendingEmailVerification to PendingApproval (setting emailVerifiedAt); a
\* still-valid token of a user in any other state does not change the state.
C10_VerifyOnlyFromPendingVerification ==
  [][(Request /\ last'.op = "verify_email")
       => \A u \in DOMAIN users :
            users'[u] # users[u]
              => /\ users[u].state = PENDING_EMAIL_VERIFICATION
                 /\ users'[u].state = PENDING_APPROVAL
                 /\ users'[u].email_verified_at = now
    ]_vars

\* C11: at most one of rejectionReason and suspendedReason is set for a user;
\* rejectionReason is set only while the state is Rejected and
\* suspendedReason only while the state is Suspended.
C11_ReasonFollowsState ==
  \A u \in DOMAIN users :
     /\ users[u].rejection_reason = NoReason \/ users[u].suspended_reason = NoReason
     /\ users[u].rejection_reason # NoReason => users[u].state = REJECTED
     /\ users[u].suspended_reason # NoReason => users[u].state = SUSPENDED

\* a rejected user was suspended, each time with a reason
C11_Witness ==
  /\ last.op = "members_suspend"
  /\ last.uid # NULL
  /\ users[last.uid].state = SUSPENDED
  /\ users[last.uid].rejection_reason # NoReason
  /\ users[last.uid].suspended_reason # NoReason

\* C12: approve_user applied to a user in PendingApproval makes the user
\* Active, sets approvedAt to the time of the request, records the acting
\* administrator as approver and records exactly one 'joined' event of that
\* user; reject_user applied to a user in PendingApproval makes the user
\* Rejected and stores the given reason, null when the reason is empty.
C12_ApproveAndReject ==
  [][\A a \in sessions, id \in DOMAIN users :
       (admin_required(a) = "pass" /\ users[id].state = PENDING_APPROVAL)
         => /\ approve_user(a, id)
                 => /\ users'[id].state = ACTIVE
                    /\ users'[id].approved_at = now
                    /\ users'[id].approved_by_id = a
                    /\ joined'[id] = joined[id] + 1
                    /\ \A o \in UserIds \ {id} : joined'[o] = joined[o]
            /\ \A r \in Reasons :
                 reject_user(a, id, r)
                 => /\ users'[id].state = REJECTED
                    /\ users'[id].rejection_reason
                         = (IF r = <<>> THEN NoReason ELSE {r})
                    /\ joined' = joined
    ]_vars

\* the administrator has just approved a user who was waiting
C12_Witness ==
  /\ last.op = "approve_user"
  /\ last.flash = {"har godkants!"}
  /\ users[last.uid].state = ACTIVE
  /\ users[last.uid].approved_at = now
  /\ users[last.uid].approved_by_id \in sessions
  /\ joined[last.uid] = 1

\* C13: approve_user or reject_user applied to a user who is not in
\* PendingApproval is a no-op reported as a warning: the user's state,
\* approvedAt, approver and rejectionReason are unchanged, no 'joined' event
\* is recorded and no notification is sent.
C13_SecondDecisionIsNoOp ==
  [][\A a \in sessions, id \in DOMAIN users :
       (/\ admin_required(a) = "pass"
        /\ users[id].state # PENDING_APPROVAL
        /\ \/ approve_user(a, id)
           \/ \E r \in Reasons : reject_user(a, id, r))
         => /\ users' = users
            /\ joined' = joined
            /\ outbox' = outbox
            /\ last'.flash = {"Denna anvandare vantar inte pa godkannande."}
    ]_vars

\* the administrator has tried to reject a user who was approved before
C13_Witness ==
  /\ last.op = "reject_user"
  /\ last.flash = {"Denna anvandare vantar inte pa godkannande."}
  /\ users[last.uid].state = ACTIVE
  /\ users[last.uid].rejection_reason = NoReason
  /\ joined[last.uid] = 1
  /\ outbox = {<<"approval", last.uid>>}

\* C14: members_reactivate applied to a user in Suspended or Rejected makes
\* the user Active with rejectionReason and suspendedReason both null;
\* applied to a user in any other state it changes nothing and reports a
\* warning.
C14_ReactivateClearsReasons ==
  [][\A a \in sessions, id \in DOMAIN users :
       (admin_required(a) = "pass" /\ members_reactivate(a, id))
         => IF users[id].state \in {SUSPENDED, REJECTED}
            THEN /\ users'[id].state = ACTIVE
                 /\ users'[id].rejection_reason = NoReason
                 /\ users'[id].suspended_reason = NoReason
            ELSE /\ db' = db
                 /\ last'.flash
                      = {"Denna anvandare ar inte avstangd eller avvisad."}
    ]_vars

\* a user who was never approved is Active after a reactivation, with no
\* reason left
C14_Witness ==
  /\ last.op = "members_reactivate"
  /\ last.flash = {"har ateraktiverats!"}
  /\ users[last.uid].state = ACTIVE
  /\ users[last.uid].approved_at = NULL
  /\ users[last.uid].rejection_reason = NoReason
  /\ users[last.uid].suspended_reason = NoReason

\* C15: the connect flow creates or updates a Link only for a caller whose
\* state is Active; when the caller is not Active at the time of the
\* callback, for example suspended while the flow state was outstanding, the
\* callback creates and updates no Link.
C15_LinkOnlyForActiveCaller ==
  [][\A a \in sessions, r \in CallbackRequests :
       (callback(a, r) /\ users[a].state # ACTIVE) => links' = links
    ]_vars

\* a suspended member has just been linked by the callback
C15_Witness ==
  /\ last.op = "callback"
  /\ last.flash = {"Strava-konto kopplat! Synkar aktiviteter..."}
  /\ users[last.uid].state = SUSPENDED
  /\ LinksOfUser(last.uid) # {}

\* C16: a flow state is accepted only by the callback of the flow that
\* issued it: the connect callback given a state of purpose login, and the
\* login callback given a state of purpose connect, is rejected without
\* creating or changing any Link or User and without creating a session.
C16_PurposeMismatchRejected ==
  [][/\ \A a \in sessions, r \in CallbackRequests :
          (/\ callback(a, r)
           /\ r.state \in DOMAIN ostates
           /\ ostates[r.state].purpose = "login")
            => /\ links' = links /\ users' = users /\ sessions' = sessions
               /\ last'.to = "profile.view"
               /\ is_valid(ostates[r.state])
                    => last'.flash = {"Felaktig state-purpose."}
     /\ \A r \in CallbackRequests :
          (/\ login_callback(r)
           /\ r.state \in DOMAIN ostates
           /\ ostates[r.state].purpose = "connect")
            => /\ links' = links /\ users' = users /\ sessions' = sessions
               /\ last'.to = "auth.login" /\ last'.logged = NULL
               /\ is_valid(ostates[r.state])
                    => last'.flash = {"Felaktig state-purpose."}
    ]_vars

\* the login callback has just turned away an unused state of a connect flow
C16_Witness ==
  /\ last.op = "login_callback"
  /\ last.flash = {"Felaktig state-purpose."}
  /\ last.key \in DOMAIN ostates
  /\ ostates[last.key].purpose = "connect"
  /\ ostates[last.key].used_at = NULL

\* why validate_oauth_state, asked for the purpose, turns a state string
\* away: one cause per check of the validation
C17_Cause(state_value, purpose) ==
  IF state_value \notin DOMAIN ostates THEN "not found"
  ELSE IF ostates[state_value].used_at # NULL /\ ostates[state_value].expires_at <= now
  THEN "used and expired"
  ELSE IF ostates[state_value].used_at # NULL THEN "already used"
  ELSE IF ostates[state_value].expires_at <= now THEN "expired"
  ELSE IF ostates[state_value].purpose # purpose THEN "purpose mismatch"
  ELSE "none"

\* C17: the validation of a flow state reports each failure cause with an
\* outcome of its own: two requests that fail for different causes (unknown
\* string, expired, already used, purpose mismatch) get different messages;
\* in particular an expired and an already used state are told apart.
C17_EachCauseOwnMessage ==
  \A k1 \in 0..MaxOAuth, k2 \in 0..MaxOAuth, p1 \in {"login", "connect"},
     p2 \in {"login", "connect"} :
     (/\ C17_Cause(k1, p1) # C17_Cause(k2, p2)
      /\ "used and expired" \notin {C17_Cause(k1, p1), C17_Cause(k2, p2)})
       => validate_oauth_state(k1, p1).error # validate_oauth_state(k2, p2).error

\* one flow state has run out unused while another, still within its time,
\* has been used
C17_Witness ==
  \E k1 \in DOMAIN ostates, k2 \in DOMAIN ostates :
     /\ C17_Cause(k1, "login") = "already used"
     /\ C17_Cause(k2, "login") = "expired"

\* C18: a connect callback whose exchanged athlete id is already linked to
\* a different local user is rejected: every existing Link keeps its owner
\* and its tokens and no Link is created for the caller.
C18_AthleteOfAnotherUserRejected ==
  [][\A a \in sessions, r \in CallbackRequests :
       (/\ callback(a, r)
        /\ \E l \in links : l.strava_athlete_id = r.code /\ l.user_id # a)
         => /\ links' = links
            /\ last'.to = "profile.view"
            /\ (validate_oauth_state(r.state, "connect").state # NULL
                /\ ostates[r.state].user_id = a)
                 => last'.flash
                      = {"Detta Strava-konto ar redan kopplat till en annan anvandare."}
    ]_vars

\* the callback has used up the caller's flow state and turned the athlete
\* away; the athlete's Link is still the other user's only
C18_Witness ==
  /\ last.op = "callback"
  /\ last.flash = {"Detta Strava-konto ar redan kopplat till en annan anvandare."}
  /\ ostates[last.key].used_at # NULL
  /\ LinksOfUser(last.uid) = {}
  /\ \E l \in links : l.user_id # last.uid

\* what a login response tells the visitor about the account, whatever the
\* wording of the message
C19_Told(message) ==
  CASE message \in {"Ditt konto vantar pa godkannande fran en administrator.",
                    "Ditt konto vantar pa godkannande."} -> "awaits approval"
    [] message \in {"Ditt konto har stagts av. Kontakta oss for mer information.",
                    "Ditt konto har stangts av."} -> "suspended"
    [] message = "Ditt konto har inte godkants. Kontakta oss for mer information."
         -> "rejected"
    [] message = "Du maste verifiera din e-postadress forst." -> "verify first"
    [] OTHER -> "nothing about the state"

\* C19: when the OAuth login callback finds the athlete linked to a user who
\* is not Active, the response is the one password login gives for that
\* state (the same page, telling the same thing about the account), no
\* session is created and the Link's stored tokens are not changed.
C19_CallbackMirrorsLoginGate ==
  [][\A r \in CallbackRequests :
       (/\ login_callback(r)
        /\ last'.uid \in DOMAIN users
        /\ users[last'.uid].state # ACTIVE)
         => /\ last'.to = LoginTarget(users[last'.uid].state)
            /\ \A m \in last'.flash :
                 C19_Told(m) = C19_Told(LoginMessage(users[last'.uid].state))
            /\ sessions' = sessions
            /\ links' = links
    ]_vars

\* the login callback has just answered for a linked user who is Rejected
C19_Witness ==
  /\ last.op = "login_callback"
  /\ last.uid \in DOMAIN users
  /\ users[last.uid].state = REJECTED
  /\ LinksOfUser(last.uid) # {}
  /\ last.flash = {"Ditt konto ar inte aktivt."}
  /\ last.logged = NULL

\* the response password login gives to correct credentials of a user in the
\* state: the message, the page and whether a session is opened
C20_Outcome(state) ==
  <<{LoginMessage(state)}, LoginTarget(state), state = ACTIVE>>

\* C20: password login with correct credentials returns a response from
\* which each of the five states can be told apart: the response for a user
\* in one state is never the response of any other state, and for
\* PendingEmailVerification it leads to the resend-verification flow.
C20_LoginTellsStatesApart ==
  [][\A f \in LoginForms :
       (login(NULL, f.username, f.password) /\ last'.uid # NULL)
         => /\ \A other \in UserState \ {users[last'.uid].state} :
                 <<last'.flash, last'.to, last'.logged # NULL>> # C20_Outcome(other)
            /\ users[last'.uid].state = PENDING_EMAIL_VERIFICATION
                 => /\ last'.to = "auth.verification_sent"
                    /\ last'.uid \in pending_ids'
    ]_vars

\* a Rejected user has just logged in with the right password
C20_Witness ==
  /\ last.op = "login"
  /\ last.uid # NULL
  /\ users[last.uid].state = REJECTED
  /\ last.to = "auth.login"
  /\ last.logged = NULL
  /\ last.flash = {"Ditt konto har inte godkants. Kontakta oss for mer information."}

C22_SmallestFreeSuffix ==
  last.op = "generate_username_from_strava"
    => LET b == base_username_of(last.athlete)
           name(k) == IF k = 0 THEN b ELSE b \o Digits(k)
       IN /\ \A u \in DOMAIN users : users[u].username # last.username
          /\ \E k \in 0..Len(users) :
               /\ last.username = name(k)
               /\ \A j \in 0..(k - 1) :
                    \E u \in DOMAIN users : users[u].username = name(j)

\* bob and bob1 are held, and the athlete Bo Berg was given bob2
C22_Witness ==
  /\ last.op = "generate_username_from_strava"
  /\ last.athlete = Profile(1)
  /\ last.username = bob \o Digits(2)
  /\ \E u \in DOMAIN users : users[u].username = bob
  /\ \E u \in DOMAIN users : users[u].username = bob \o Digits(1)

\* C23: sync asks the provider for the activity listing only with an access
\* token for which now <= expiresAt - 300 seconds held at the check, or with
\* one just obtained by a successful refresh whose new access token, refresh
\* token and expiry were stored in the Link before the call.
C23_ListingOnlyWithValidToken ==
  [][\A a \in sessions, refreshed \in BOOLEAN :
       (/\ \E f \in PagedFeeds :
             sync(a, refreshed, f)
        /\ "requests" \in DOMAIN last'
        /\ last'.requests >= 1)
         => \E old \in LinksOfUser(a) :
              \/ /\ now <= old.expires_at - refresh_buffer
                 /\ last'.access_token = old.access_token
                 /\ links' = links
              \/ /\ now > old.expires_at - refresh_buffer
                 /\ refreshed
                 /\ last'.access_token # old.access_token
                 /\ \E new \in links' \ links :
                      /\ new.user_id = a
                      /\ new.strava_athlete_id = old.strava_athlete_id
                      /\ new.access_token = last'.access_token
                      /\ new.refresh_token # old.refresh_token
                      /\ new.expires_at = now + ProviderTTL
                      /\ links' = (links \ {old}) \cup {new}
    ]_vars

\* a sync has just listed activities with a token refreshed in the same
\* request
C23_Witness ==
  /\ last.op = "sync"
  /\ "requests" \in DOMAIN last
  /\ last.requests = 1
  /\ \E l \in LinksOfUser(last.uid) :
       /\ l.access_token = last.access_token
       /\ l.expires_at = now + ProviderTTL
       /\ now > 0

C25_OnlyRidesStored ==
  [][/\ \A r \in activities' : r.activity_type = "Ride"
     /\ \A a \in sessions, f \in PagedFeeds, refreshed \in BOOLEAN :
          (/\ "count" \in DOMAIN last'
           /\ last'.uid = a
           /\ sync(a, refreshed, f))
            => LET listed == UNION {Range(f[p].items) : p \in DOMAIN f}
                   rides == {d.id : d \in {i \in listed : i.type = "Ride"}}
               IN /\ \A id \in 1..NumActivityIds :
                       id \notin rides
                         => RecordsOf(activities', id) = RecordsOf(activities, id)
                  /\ last'.count
                       <= Cardinality({id \in rides : RecordsOf(activities, id) = {}})
    ]_vars

\* a sync has stored the ride of a short page; the virtual ride on that
\* page carries the id and newer values of a record stored before, which
\* still has the old values
C25_Witness ==
  /\ last.op = "sync"
  /\ "count" \in DOMAIN last
  /\ last.requests = 1
  /\ last.count = 1
  /\ RecordsOf(activities, NumActivityIds) # {}
  /\ \E r \in RecordsOf(activities, 1) : r.name = activity_data(1, "Ride", 1).name

\* C26: the fetch loop of sync requests page p+1 exactly when page p
\* returned as many items as the page size (50), and stops after the first
\* page that is empty, shorter than the page size or failed: the pages it
\* requests are 1..k, every page before k was full and page k was not.  So
\* pages of 50, 50 and 10 end after the third request, and a single full page
\* is followed by one more request.
C26_NextPageExactlyAfterFullPage ==
  [][\A a \in sessions, f \in PagedFeeds, refreshed \in BOOLEAN :
       (/\ "requests" \in DOMAIN last'
        /\ last'.uid = a
        /\ sync(a, refreshed, f))
         => LET full(p) == /\ fetch_strava_activities(f, p).ok
                           /\ fetch_strava_activities(f, p).size = per_page
            IN /\ last'.requests >= 1
               /\ \A p \in 1..(last'.requests - 1) : full(p)
               /\ ~full(last'.requests)
    ]_vars

\* a sync run has ended with its third request, which was answered with a
\* list, and has inserted the ride of the full pages and the ride of the
\* short page
C26_Witness ==
  /\ last.op = "sync"
  /\ "requests" \in DOMAIN last
  /\ last.requests = 3
  /\ last.listed
  /\ last.count = 2

C28_SignupExactlyWhenValid ==
  [][\A f \in SignupRequests :
       signup(NULL, f)
         => LET username == lower(strip(f.username))
                email == lower(strip(f.email))
                passes ==
                  /\ Len(username) >= 3
                  /\ email # <<>>
                  /\ "@" \in Range(email)
                  /\ Len(f.password) >= 6
                  /\ f.password = f.confirm_password
                  /\ \A i \in UserIds : users[i].username # username
                  /\ \A i \in UserIds : users[i].email # email
                id == Len(users) + 1
            IN /\ sessions' = sessions
               /\ passes
                    => /\ Len(users') = id
                       /\ SubSeq(users', 1, Len(users)) = users
                       /\ users'[id].username = username
                       /\ users'[id].email = email
                       /\ users'[id].state = PENDING_EMAIL_VERIFICATION
                       /\ users'[id].role = USER
                       /\ users'[id].leaderboard_opt_in = FALSE
                       /\ Len(vtokens') = Len(vtokens) + 1
                       /\ SubSeq(vtokens', 1, Len(vtokens)) = vtokens
                       /\ vtokens'[Len(vtokens')].user_id = id
                       /\ vtokens'[Len(vtokens')].used_at = NULL
               /\ ~passes
                    => /\ db' = db
                       /\ last'.flash # {}
                       /\ last'.to = "auth/signup.html"
    ]_vars

\* the form typed " Alice" was accepted: alice waits for the verification of
\* her address, holds the one token, and nobody is logged in
C28_Witness ==
  /\ last.op = "signup"
  /\ last.to = "auth.verification_sent"
  /\ Len(users) = 2
  /\ users[2].username = alice
  /\ users[2].state = PENDING_EMAIL_VERIFICATION
  /\ Len(vtokens) = 1
  /\ vtokens[1].user_id = 2
  /\ sessions = {}

\* C29: a token or flow state is accepted only while usedAt is null and the
\* current time is strictly before expiresAt: every step that marks one used
\* finds it unused at a time before its expiry, and a token or state
\* presented at or after its expiry is refused as expired and stays as it
\* was, with no user, link or session changed.
C29_AcceptedOnlyBeforeExpiry ==
  [][/\ \A t \in DOMAIN vtokens :
          vtokens'[t] # vtokens[t]
            => /\ vtokens[t].used_at = NULL
               /\ now < vtokens[t].expires_at
               /\ vtokens'[t] = [vtokens[t] EXCEPT !.used_at = now]
     /\ \A k \in DOMAIN ostates :
          ostates'[k] # ostates[k]
            => /\ ostates[k].used_at = NULL
               /\ now < ostates[k].expires_at
               /\ ostates'[k] = [ostates[k] EXCEPT !.used_at = now]
     /\ (/\ Request
         /\ last'.op = "verify_email"
         /\ last'.key \in DOMAIN vtokens
         /\ now >= vtokens[last'.key].expires_at)
        => /\ last'.flash = {ExpiredLink}
           /\ UNCHANGED <<users, vtokens, ostates, links, sessions>>
     /\ (/\ Request
         /\ last'.op \in {"login_callback", "callback"}
         /\ last'.key \in DOMAIN ostates
         /\ now >= ostates[last'.key].expires_at)
        => /\ last'.flash = {ExpiredState}
           /\ UNCHANGED <<users, vtokens, ostates, links, sessions>>
    ]_vars

\* a verification token that was never used was presented at the very
\* minute it expires, was refused and is still unused; its user still waits
\* for the verification
C29_Witness ==
  /\ last.op = "verify_email"
  /\ last.flash = {ExpiredLink}
  /\ last.key \in DOMAIN vtokens
  /\ vtokens[last.key].used_at = NULL
  /\ now = vtokens[last.key].expires_at
  /\ users[vtokens[last.key].user_id].state = PENDING_EMAIL_VERIFICATION

\* C30: a failing notification never undoes or blocks a transition: when
\* the approval, rejection or pending-approval email cannot be sent (no mail
\* service configured, or the service refuses the message), send_email
\* reports the failure as the value False, the request completes with its
\* usual response, and the user's new state (Active, Rejected, or the newly
\* created PendingApproval user with its Link) is committed.
C30_FailedMailKeepsTransition ==
  [][(/\ Request
      /\ "sent" \in DOMAIN last'
      /\ ~last'.configured \/ ~last'.accepted)
       => /\ ~last'.sent
          /\ LET id == last'.uid IN
             CASE last'.op = "approve_user" ->
                    /\ users[id].state = PENDING_APPROVAL
                    /\ users'[id].state = ACTIVE
                    /\ last'.flash = {"har godkants!"}
                    /\ last'.to = "admin.approvals_list"
               [] last'.op = "reject_user" ->
                    /\ users[id].state = PENDING_APPROVAL
                    /\ users'[id].state = REJECTED
                    /\ last'.flash = {"har avvisats."}
                    /\ last'.to = "admin.approvals_list"
               [] last'.op = "login_callback" ->
                    /\ id = Len(users) + 1
                    /\ Len(users') = id
                    /\ users'[id].state = PENDING_APPROVAL
                    /\ \E l \in links' \ links : l.user_id = id
                    /\ last'.flash = {"Konto skapat! Ditt konto vantar nu pa godkannande."}
                    /\ last'.to = "auth.pending_approval"
    ]_vars

\* the mail service refused the approval email, send_email returned False,
\* and the approved user is Active
C30_Witness ==
  /\ last.op = "approve_user"
  /\ "sent" \in DOMAIN last
  /\ last.configured
  /\ ~last.accepted
  /\ ~last.sent
  /\ users[last.uid].state = ACTIVE

\* C31: disconnect removes the caller's Link and all of the caller's
\* external activity records and leaves the users table (existence, state,
\* role, credentials) and the sessions as they were; no two Links ever carry
\* the same athlete id; and an athlete id without a Link can be linked
\* again: a connect callback of a member without a Link, with that member's
\* valid connect state, stores a Link of the member to the athlete, and a
\* login callback with a valid login state creates a user linked to it.
C31_DisconnectFreesAthlete ==
  [][/\ \A l1, l2 \in links' :
          l1.strava_athlete_id = l2.strava_athlete_id => l1 = l2
     /\ \A a \in sessions :
          (last'.op = "disconnect" /\ last'.uid = a /\ disconnect(a))
            => /\ users' = users
               /\ sessions' = sessions
               /\ links' = {l \in links : l.user_id # a}
               /\ activities' = IF \E l \in links : l.user_id = a
                                THEN {r \in activities : r.user_id # a}
                                ELSE activities
     /\ \A r \in CallbackRequests :
          LET free == /\ \A l \in links : l.strava_athlete_id # r.code
                      /\ r.state \in DOMAIN ostates
                      /\ ostates[r.state].used_at = NULL
                      /\ now < ostates[r.state].expires_at
          IN /\ \A a \in sessions :
                  (/\ last'.op = "callback"
                   /\ last'.key = r.state
                   /\ free
                   /\ callback(a, r)
                   /\ ostates[r.state].purpose = "connect"
                   /\ ostates[r.state].user_id = a
                   /\ \A l \in links : l.user_id # a)
                    => \E l \in links' \ links :
                         /\ l.user_id = a
                         /\ l.strava_athlete_id = r.code
                         /\ links' = links \cup {l}
             /\ (/\ last'.op = "login_callback"
                 /\ last'.key = r.state
                 /\ free
                 /\ login_callback(r)
                 /\ ostates[r.state].purpose = "login")
                  => \E l \in links' \ links :
                       /\ l.user_id = Len(users) + 1
                       /\ l.strava_athlete_id = r.code
                       /\ links' = links \cup {l}
    ]_vars

\* a member who had connected through a connect flow has just disconnected:
\* the member has no Link and no activity record left, is still Active and
\* still logged in
C31_Witness ==
  /\ last.op = "disconnect"
  /\ last.flash = {"Strava-konto bortkopplat."}
  /\ \A l \in links : l.user_id # last.uid
  /\ \A r \in activities : r.user_id # last.uid
  /\ users[last.uid].state = ACTIVE
  /\ last.uid \in sessions
  /\ \E k \in DOMAIN ostates :
       ostates[k].user_id = last.uid /\ ostates[k].used_at # NULL

\* C32: the role is independent of the lifecycle: a step changes the role of
\* a member only when it is a members_edit of that member, the actor of every
\* such request has the role Admin, the new role is one of User, Moderator
\* and Admin, and the member's state stays as it is; signup, verify_email,
\* approve_user, reject_user, members_suspend, members_reactivate and the
\* OAuth callbacks leave every role as it is, and a new row starts as User.
C32_RoleOnlyByAdminEdit ==
  [][/\ \A u \in UserIds :
          users'[u].role # users[u].role
          => /\ last'.op = "members_edit"
             /\ last'.uid = u
             /\ users'[u].role \in UserRole
             /\ users'[u].state = users[u].state
             /\ \A a \in sessions, f \in RoleForms(u) :
                   members_edit(a, u, f) => is_admin_role(users[a])
     /\ \A u \in DOMAIN users' \ DOMAIN users : users'[u].role = USER
     /\ last'.op # "members_edit"
        => \A u \in UserIds : users'[u].role = users[u].role]_vars

\* the administrator made a member who came in through the provider and
\* still waits for approval Moderator, then gave the role Admin away
C32_Witness ==
  /\ last.op = "members_edit"
  /\ last.flash = {"Medlemmen har uppdaterats!"}
  /\ last.uid \in sessions
  /\ users[last.uid].role = USER
  /\ \E u \in UserIds : /\ users[u].role = MODERATOR
                        /\ users[u].state = PENDING_APPROVAL
                        /\ LinksOfUser(u) # {}

\* C33: every Active user has email_verified_at set: whatever the requests,
\* suspending a user who has not verified and reactivating them included,
\* no user is Active without a verification timestamp.
C33_ActiveOnlyVerified ==
  \A u \in UserIds :
     users[u].state = ACTIVE => users[u].email_verified_at # NULL

\* a member who never presented a token was suspended and then reactivated
C33_Witness ==
  /\ last.op = "members_reactivate"
  /\ last.flash = {"har ateraktiverats!"}
  /\ users[last.uid].state = ACTIVE
  /\ users[last.uid].email_verified_at = NULL
  /\ \A t \in DOMAIN vtokens :
        vtokens[t].user_id = last.uid => vtokens[t].used_at = NULL
  /\ LinksOfUser(last.uid) = {}

\* C34: for every Link the stored access and refresh tokens were issued for
\* the athlete whose id the Link carries: the connect callback never stores
\* the tokens of one athlete in a Link whose athlete id is another's, also
\* when several connect flow states are outstanding and two callbacks come
\* back with different athletes.
C34_TokensOfTheLinkedAthlete ==
  \A l \in links :
     /\ l.access_token[2] = l.strava_athlete_id
     /\ l.refresh_token[2] = l.strava_athlete_id

\* the second of two connect callbacks of one member came back with another
\* athlete and was accepted
C34_Witness ==
  /\ last.op = "callback"
  /\ last.flash = {"Strava-konto kopplat! Synkar aktiviteter..."}
  /\ \A k \in DOMAIN ostates :
        /\ ostates[k].user_id = last.uid
        /\ ostates[k].purpose = "connect"
        /\ ostates[k].used_at # NULL
  /\ Len(ostates) >= 2
  /\ \E l \in LinksOfUser(last.uid) :
        /\ l.access_token[2] # l.strava_athlete_id
        /\ l.refresh_token[2] # l.strava_athlete_id

\* C35: once a user is Suspended no request under a session opened earlier
\* changes the stored state until the user is reactivated: while every
\* session belongs to a Suspended user, approve_user, members_suspend,
\* members_reactivate, members_edit and members_delete leave the database as
\* it is.
C35_NothingUnderSuspendedSession ==
  [][(/\ sessions # {}
      /\ \A a \in sessions : users[a].state = SUSPENDED
      /\ last'.op \in {"approve_user", "members_suspend", "members_reactivate",
                       "members_edit", "members_delete"})
     => db' = db]_vars

\* every session belongs to a Suspended user and a member has just been
\* edited
C35_Witness ==
  /\ last.op = "members_edit"
  /\ last.flash = {"Medlemmen har uppdaterats!"}
  /\ sessions # {}
  /\ \A a \in sessions : users[a].state = SUSPENDED

\* C36: after a sync that failed because the token refresh failed, the user
\* gets a usable link again through the connect flow without disconnecting
\* first: the connect entry point the sync redirects to issues a new connect
\* flow state and sends the user on to the provider.
C36_ConnectAfterFailedRefresh ==
  [][\A a \in sessions :
       (/\ last.op = "sync"
        /\ last.uid = a
        /\ last.flash = {"Kunde inte autentisera med Strava. Koppla om ditt konto."}
        /\ last.to = "strava.connect"
        /\ connect(a))
       => /\ Len(ostates') = Len(ostates) + 1
          /\ ostates'[Len(ostates')].user_id = a
          /\ ostates'[Len(ostates')].purpose = "connect"
          /\ last'.to = "strava.authorize"]_vars

\* the member whose access token has expired and could not be refreshed
\* followed the redirect to connect and was turned away
C36_Witness ==
  /\ last.op = "connect"
  /\ last.flash = {"Du ar redan kopplad till Strava!"}
  /\ last.to = "profile.view"
  /\ users[last.uid].state = ACTIVE
  /\ Outstanding = {}
  /\ \E l \in LinksOfUser(last.uid) : is_expired(l)

\* C37: an actor whose role is not Admin never changes the password, the
\* e-mail address or the state of an Admin member: a members_edit,
\* members_suspend or members_delete by a Moderator leaves the Admin member's
\* row as it is; and no actor suspends or deletes themselves.
C37_AdminUntouchedByModerator ==
  [][/\ (/\ last'.op \in {"members_edit", "members_suspend", "members_delete"}
         /\ sessions # {}
         /\ \A a \in sessions : users[a].role = MODERATOR)
        => \A u \in UserIds :
              users[u].role = ADMIN
              => /\ users'[u].password_hash = users[u].password_hash
                 /\ users'[u].email = users[u].email
                 /\ users'[u].state = users[u].state
     /\ \A a \in sessions :
           (members_suspend(a, a, <<>>) \/ members_delete(a, a)) => db' = db
    ]_vars

\* every session belongs to a Moderator and the address and the password of
\* an Admin have just been edited
C37_Witness ==
  /\ last.op = "members_edit"
  /\ last.flash = {"Medlemmen har uppdaterats!"}
  /\ sessions # {}
  /\ \A a \in sessions : users[a].role = MODERATOR
  /\ users[last.uid].role = ADMIN
  /\ users[last.uid].email = mail_b
  /\ users[last.uid].password_hash = generate_password_hash(pw_other)

\* C38: a sync by user U modifies and counts no activity record owned by
\* another user, and the owner of every record it stores is the user who
\* holds the Link of the athlete the activity came from: on a sync step of U
\* the records of the other users stay as they are, every record written has
\* owner U, U's Link carries the athlete whose ride it is (the ride of
\* athlete n has id n), and the count is the number of records added.
C38_SyncWritesOwnRecordsOnly ==
  [][\A a \in sessions :
       (/\ last'.op = "sync"
        /\ last'.uid = a
        /\ "count" \in DOMAIN last')
       => /\ \A r \in activities : r.user_id # a => r \in activities'
          /\ \A r \in activities' \ activities :
                /\ r.user_id = a
                /\ \E l \in LinksOfUser(a) : l.strava_athlete_id = r.strava_id
          /\ last'.count =
                Cardinality({r \in activities' :
                               find_activity(activities, r.strava_id) = {}})
    ]_vars

\* a sync has stored, for its caller, the ride of an athlete other than the
\* one the caller's Link names
C38_Witness ==
  /\ last.op = "sync"
  /\ "count" \in DOMAIN last
  /\ last.count = 1
  /\ \E r \in activities :
        /\ r.user_id = last.uid
        /\ \A l \in LinksOfUser(last.uid) : l.strava_athlete_id # r.strava_id
  /\ LinksOfUser(last.uid) # {}

\* C39: a connect callback that is refused because the flow state belongs to
\* another user does not consume that flow state: its used_at stays NULL and
\* its owner can still use it.
C39_ForeignStateNotConsumed ==
  [][\A a \in sessions, r \in CallbackRequests :
       (/\ last'.op = "callback"
        /\ last'.uid = a
        /\ last'.key = r.state
        /\ last'.flash = {"Ogiltig state for denna anvandare."}
        /\ callback(a, r))
       => /\ ostates'[r.state].used_at = NULL
          /\ ostates' = ostates]_vars

\* a member presented the flow state of another member, who holds a session
\* and has no Link yet, and was refused
C39_Witness ==
  /\ last.op = "callback"
  /\ last.flash = {"Ogiltig state for denna anvandare."}
  /\ last.key \in DOMAIN ostates
  /\ ostates[last.key].user_id # last.uid
  /\ ostates[last.key].user_id \in sessions
  /\ ostates[last.key].used_at = now
  /\ ostates[last.key].expires_at > now
  /\ LinksOfUser(ostates[last.key].user_id) = {}

\* C40: for a password login with a wrong password the response does not
\* depend on the account it was aimed at: whatever the state of the account,
\* and whether or not it exists, the answer is the one message and the login
\* page again, no session is opened, nothing is remembered in the browser
\* and nothing is stored; a message that tells the state is given only after
\* the right password.
C40_WrongPasswordTellsNothing ==
  [][\A f \in LoginForms :
       LET username == strip(f.username)
           user == first_user({i \in UserIds : \/ users[i].username = username
                                                \/ users[i].email = username})
           wrong == \/ user = NULL
                    \/ users[user].password_hash
                         # generate_password_hash(f.password)
       IN (/\ last'.op = "login"
           /\ wrong
           /\ login(NULL, f.username, f.password))
          => /\ last' = Response("login", {"Fel anvandarnamn eller losenord."},
                                 "auth/login.html", NULL, NULL)
             /\ UNCHANGED <<db, sessions, pending_ids>>]_vars

\* a wrong password was given for the account of a Suspended member, after
\* the same answer was the only one possible in the account's other states
C40_Witness ==
  /\ last = Response("login", {"Fel anvandarnamn eller losenord."},
                     "auth/login.html", NULL, NULL)
  /\ \E u \in UserIds :
        /\ users[u].email = mail_a
        /\ users[u].state = SUSPENDED
        /\ users[u].password_hash # generate_password_hash(pw_other)
        /\ users[u].email_verified_at # NULL
        /\ users[u].approved_at # NULL

====
